---- MODULE Spec2Model ----
(***************************************************************************)
(* md2wechat: the Markdown -> WeChat HTML converter of                     *)
(* skills/md2wechat/libs/converter.py as a state machine.                  *)
(*                                                                         *)
(* Text is a sequence of symbols.  A symbol is a one-character string, or  *)
(* a word that none of the converter's patterns can split ("title",        *)
(* "{color:", "#f00", ...).  A string of the program is modelled by its    *)
(* view under str.split("\n"): a non-empty sequence of lines, each a       *)
(* sequence of symbols.  The input alphabet holds the space as its only    *)
(* whitespace symbol and no carriage return.                               *)
(*                                                                         *)
(* HTML is a sequence of tokens: markup the renderer writes is one         *)
(* multi-character token per tag ("<p>", "</strong>", "&lt;"), text that   *)
(* comes from the document stays one symbol per character.                 *)
(***************************************************************************)
EXTENDS Integers, Sequences, FiniteSets, TLC

VARIABLES
    md_content,     \* convert(): the md_content argument (lines)
    title,          \* convert(): the title argument
    source,         \* convert(): the source argument
    pc,             \* position inside convert()
    front_matter,   \* MarkdownParser.front_matter
    body,           \* MarkdownParser.body (lines)
    image_counter,  \* MarkdownToWeChatConverter.image_counter
    lines,          \* _convert_body: lines
    i,              \* _convert_body: index of the next line (1-based)
    sections,       \* _convert_body: sections
    cur,            \* _convert_body: cur (<<>> is None, <<sec>> a section)
    in_code,        \* _convert_body: in_code
    code_lang,      \* _convert_body: code_lang
    buf_code,       \* _convert_body: buf_code
    preface,        \* _convert_body: preface
    parabuf,        \* _convert_body: parabuf
    html,           \* _convert_body: html (one entry per converted section)
    result,         \* the value convert() returns
    span,           \* _inline_format: the text argument
    formatted,      \* _inline_format: the value returned (<<>> before the call)
    style,          \* MarkdownToWeChatConverter(): the style argument
    style_config,   \* MarkdownToWeChatConverter.style_config (<<>> before __init__)
    error,          \* the exception __init__ raised (<<>> is none)
    styles,         \* the module-level dict STYLES
    _parsers,       \* ParserRegistry._parsers
    filepath,       \* get_parser: the filepath argument
    parser_,        \* get_parser: the parser returned (<<>> is none)
    namespace,      \* the names the module parsers holds when publisher.py is imported
    publish_pc,     \* position inside publisher.py and publish()
    cls_STYLES,     \* ArticlePublisher.STYLES
    call,           \* publish(): the style and cover_image arguments
    parse_result,   \* publish(): result (<<>> before parser.parse returned)
    thumb_media_id, \* publish(): thumb_media_id (<<>> is None)
    uploaded_images, \* publish(): uploaded_images
    calls,          \* the calls publish() has made, in order
    returned        \* the dict publish() returned (<<>> before it returns)

vars == <<md_content, title, source, pc, front_matter, body, image_counter,
          lines, i, sections, cur, in_code, code_lang, buf_code, preface,
          parabuf, html, result, span, formatted, style, style_config, error,
          styles, _parsers, filepath, parser_, namespace, publish_pc,
          cls_STYLES, call, parse_result, thumb_media_id, uploaded_images,
          calls, returned>>

convVars == <<md_content, title, source, pc, front_matter, body, image_counter,
              lines, i, sections, cur, in_code, code_lang, buf_code, preface,
              parabuf, html, result>>

lexVars == <<sections, cur, in_code, code_lang, buf_code, preface, parabuf>>

ctorVars == <<style, style_config, error, styles>>

pubVars == <<namespace, publish_pc, cls_STYLES, call, parse_result,
             thumb_media_id, uploaded_images, calls, returned>>

scriptVars == <<_parsers, filepath, parser_, pubVars>>

-----------------------------------------------------------------------------
(* Python string helpers, on sequences of symbols.                         *)

WS == {" "}

None == <<>>

\* the names scripts/parsers.py defines at its top level
ParsersNames ==
    {"ContentParser", "ParseResult", "MarkdownParser", "HTMLParser",
     "ParserRegistry"}

\* scripts/publisher.py has not been imported
NotImported ==
    /\ publish_pc = "new"
    /\ cls_STYLES = None
    /\ call = None
    /\ parse_result = None
    /\ thumb_media_id = None
    /\ uploaded_images = <<>>
    /\ calls = <<>>
    /\ returned = None

\* the backquote character (written as a word: the parser rejects it in a string)
Tick == "tick"

Min(a, b) == IF a < b THEN a ELSE b

Max(a, b) == IF a > b THEN a ELSE b

Drop(t, n) == SubSeq(t, n + 1, Len(t))

Take(t, n) == SubSeq(t, 1, n)

RECURSIVE LStripChars(_, _)
LStripChars(t, cs) ==
    IF t # <<>> /\ Head(t) \in cs THEN LStripChars(Tail(t), cs) ELSE t

RECURSIVE RStripChars(_, _)
RStripChars(t, cs) ==
    IF t # <<>> /\ t[Len(t)] \in cs
    THEN RStripChars(Take(t, Len(t) - 1), cs)
    ELSE t

StripChars(t, cs) == LStripChars(RStripChars(t, cs), cs)

LStrip(t) == LStripChars(t, WS)

RStrip(t) == RStripChars(t, WS)

Strip(t) == StripChars(t, WS)

StartsWith(t, p) == Len(t) >= Len(p) /\ Take(t, Len(p)) = p

EndsWith(t, p) == Len(t) >= Len(p) /\ Drop(t, Len(t) - Len(p)) = p

\* str.find: the first index n >= from with t[n] = c, or 0
RECURSIVE Find(_, _, _)
Find(t, c, from) ==
    IF from > Len(t) THEN 0
    ELSE IF t[from] = c THEN from
    ELSE Find(t, c, from + 1)

Contains(t, c) == Find(t, c, 1) # 0

RECURSIVE Flatten(_)
Flatten(ss) == IF ss = <<>> THEN <<>> ELSE Head(ss) \o Flatten(Tail(ss))

\* "\n".join(ls), in the lines view: joining no line gives the empty
\* string, whose split("\n") is one empty line
JoinLines(ls) == IF ls = <<>> THEN << <<>> >> ELSE ls

-----------------------------------------------------------------------------
(* html.escape                                                             *)

EscapeChar(c) ==
    CASE c = "&" -> "&amp;"
      [] c = "<" -> "&lt;"
      [] c = ">" -> "&gt;"
      [] c = "\"" -> "&quot;"
      [] c = "'" -> "&#x27;"
      [] OTHER -> c

_escape_html(t) == [n \in 1..Len(t) |-> EscapeChar(t[n])]

-----------------------------------------------------------------------------
(* MarkdownParser                                                          *)

Fence == <<"-", "-", "-">>

\* a front-matter value: a str or a list of str
Str(t) == [kind |-> "str", v |-> t]

List(ts) == [kind |-> "list", v |-> ts]

\* lines 271-274: the run of "-" lines from fm_lines[j] on
RECURSIVE ListItemsFrom(_, _)
ListItemsFrom(fm_lines, j) ==
    IF j <= Len(fm_lines) /\ StartsWith(Strip(fm_lines[j]), <<"-">>)
    THEN <<Strip(Tail(Strip(fm_lines[j])))>> \o ListItemsFrom(fm_lines, j + 1)
    ELSE <<>>

\* lines 255-281: the while loop over fm_lines, from index n (1-based)
RECURSIVE ParseFmLines(_, _, _)
ParseFmLines(fm_lines, n, fm) ==
    IF n > Len(fm_lines) THEN fm
    ELSE LET line == Strip(fm_lines[n])
             colon == Find(line, ":", 1)
             key == Strip(Take(line, colon - 1))
             value == StripChars(StripChars(Strip(Drop(line, colon)), {"\""}), {"'"})
             list_items == ListItemsFrom(fm_lines, n + 1)
         IN  IF line = <<>> THEN ParseFmLines(fm_lines, n + 1, fm)
             ELSE IF colon = 0 THEN ParseFmLines(fm_lines, n + 1, fm)
             ELSE IF value = <<>> /\ n + 1 <= Len(fm_lines) /\ list_items # <<>>
                  THEN ParseFmLines(fm_lines, n + 1 + Len(list_items),
                                    (key :> List(list_items)) @@ fm)
                  ELSE ParseFmLines(fm_lines, n + 1, (key :> Str(value)) @@ fm)

\* a closing-line search that takes only a line that is exactly "---": what
\* lines 242-246 would be without strip()
RECURSIVE FindEndExact(_, _)
FindEndExact(ls, from) ==
    IF from > Len(ls) THEN 0
    ELSE IF ls[from] = Fence THEN from
    ELSE FindEndExact(ls, from + 1)

\* lines 242-246: the first n >= from with lines[n].strip() == "---", or 0
RECURSIVE FindEnd(_, _)
FindEnd(ls, from) ==
    IF from > Len(ls) THEN 0
    ELSE IF Strip(ls[from]) = Fence THEN from
    ELSE FindEnd(ls, from + 1)

\* MarkdownParser.__init__ / _parse_front_matter: [front_matter, body]
_parse_front_matter(content) ==
    LET end_idx == FindEnd(content, 2)
    IN  IF ~StartsWith(content[1], Fence)
        THEN [front_matter |-> <<>>, body |-> content]
        ELSE IF Strip(content[1]) # Fence
        THEN [front_matter |-> <<>>, body |-> content]
        ELSE IF end_idx = 0
        THEN [front_matter |-> <<>>, body |-> content]
        ELSE [front_matter |-> ParseFmLines(SubSeq(content, 2, end_idx - 1), 1, <<>>),
              body |-> JoinLines(Drop(content, end_idx))]

get_front_matter(fm, key, default) ==
    IF key \in DOMAIN fm THEN fm[key] ELSE default

-----------------------------------------------------------------------------
(* _convert_body: the patterns that classify one line                      *)

Digits == {"0", "1", "2", "3", "4", "5", "6", "7", "8", "9"}

\* the number of leading symbols of t that are in cs
CountLeading(t, cs) == Len(t) - Len(LStripChars(t, cs))

\* the first index n >= from with t[n] not whitespace, or 0
RECURSIVE FindNonWS(_, _)
FindNonWS(t, from) ==
    IF from > Len(t) THEN 0
    ELSE IF t[from] \notin WS THEN from
    ELSE FindNonWS(t, from + 1)

\* the first index n >= from with t[n] whitespace, or 0
RECURSIVE FindWS(_, _)
FindWS(t, from) ==
    IF from > Len(t) THEN 0
    ELSE IF t[from] \in WS THEN from
    ELSE FindWS(t, from + 1)

NoMatch == [ok |-> FALSE]

\* line 503: the left-stripped line starts with three backticks
IsFenceLine(line) == StartsWith(LStrip(line), <<Tick, Tick, Tick>>)

\* _IMG_RE_1 (line 461) matched at position p: "![", alt without "]", "](",
\* src without whitespace (lazy), whitespace, a quoted non-empty title, ")"
ImgRe1At(t, p) ==
    LET close == Find(t, "]", p + 2)
        q == close + 2
        s == FindWS(t, q + 1)
        u == FindNonWS(t, s)
        v == Find(t, "\"", u + 1)
    IN  IF /\ p + 1 <= Len(t) /\ t[p] = "!" /\ t[p + 1] = "["
           /\ close # 0
           /\ q <= Len(t) /\ t[close + 1] = "(" /\ t[q] \notin WS
           /\ s # 0 /\ u # 0 /\ t[u] = "\""
           /\ v >= u + 2
           /\ v + 1 <= Len(t) /\ t[v + 1] = ")"
        THEN [ok |-> TRUE, alt |-> SubSeq(t, p + 2, close - 1),
              src |-> SubSeq(t, q, s - 1), title |-> SubSeq(t, u + 1, v - 1)]
        ELSE NoMatch

\* _IMG_RE_2 (line 462) matched at position p: "![", alt without "]", "](",
\* src without whitespace (lazy, one symbol at least), ")"
ImgRe2At(t, p) ==
    LET close == Find(t, "]", p + 2)
        q == close + 2
        r == Find(t, ")", q + 1)
    IN  IF /\ p + 1 <= Len(t) /\ t[p] = "!" /\ t[p + 1] = "["
           /\ close # 0
           /\ q <= Len(t) /\ t[close + 1] = "("
           /\ r # 0
           /\ \A n \in q..(r - 1) : t[n] \notin WS
        THEN [ok |-> TRUE, alt |-> SubSeq(t, p + 2, close - 1),
              src |-> SubSeq(t, q, r - 1), title |-> <<>>]
        ELSE NoMatch

\* re.search: the match at the leftmost position >= p
RECURSIVE ImgRe1Search(_, _)
ImgRe1Search(t, p) ==
    IF p > Len(t) THEN NoMatch
    ELSE IF ImgRe1At(t, p).ok THEN ImgRe1At(t, p)
    ELSE ImgRe1Search(t, p + 1)

RECURSIVE ImgRe2Search(_, _)
ImgRe2Search(t, p) ==
    IF p > Len(t) THEN NoMatch
    ELSE IF ImgRe2At(t, p).ok THEN ImgRe2At(t, p)
    ELSE ImgRe2Search(t, p + 1)

\* lines 530-542: the image a line holds, if any
ImageMatch(line) ==
    LET starts == StartsWith(Strip(line), <<"!", "[">>)
    IN  IF ImgRe1Search(line, 1).ok /\ starts THEN ImgRe1Search(line, 1)
        ELSE IF ImgRe2Search(line, 1).ok /\ starts THEN ImgRe2Search(line, 1)
        ELSE NoMatch

\* _ATX_H_RE (line 460): up to 3 spaces, 1 to 6 "#", whitespace, a lazy
\* group, then a tail of whitespace, "#"s and whitespace; lines 558-559
AtxMatch(line) ==
    LET sp == CountLeading(line, WS)
        r1 == Drop(line, sp)
        n == CountLeading(r1, {"#"})
        r2 == Drop(r1, n)
        k == CountLeading(r2, WS)
        r3 == Drop(r2, k)
        \* r3 without its longest tail of whitespace, "#"s, whitespace
        core == RStrip(RStripChars(RStrip(r3), {"#"}))
        \* the group is lazy and takes one symbol at least
        group2 == IF r3 = <<>> THEN <<" ">> ELSE Take(r3, Max(1, Len(core)))
    IN  IF sp <= 3 /\ n >= 1 /\ n <= 6 /\ k >= 1 /\ (r3 # <<>> \/ k >= 2)
        THEN [ok |-> TRUE, level |-> n, text |-> Strip(group2)]
        ELSE NoMatch

\* line 594: indentation, a bullet or digits and ".", whitespace, the item
\* text (one symbol at least); lines 597-600
ListMatch(line) ==
    LET indent == CountLeading(line, WS)
        r1 == Drop(line, indent)
        d == CountLeading(r1, Digits)
        bullet == r1 # <<>> /\ r1[1] \in {"-", "*", "+"}
        numbered == d >= 1 /\ d + 1 <= Len(r1) /\ r1[d + 1] = "."
        r2 == IF bullet THEN Drop(r1, 1) ELSE Drop(r1, d + 1)
        k == CountLeading(r2, WS)
        r3 == Drop(r2, k)
    IN  IF (bullet \/ numbered) /\ k >= 1 /\ Len(r2) >= 2
        THEN [ok |-> TRUE, indent |-> indent, is_ordered |-> ~bullet,
              item_text |-> IF r3 # <<>> THEN r3 ELSE <<" ">>]
        ELSE NoMatch

\* str.split(c)
RECURSIVE Split(_, _)
Split(t, c) ==
    LET n == Find(t, c, 1)
    IN  IF n = 0 THEN <<t>> ELSE <<Take(t, n - 1)>> \o Split(Drop(t, n), c)

\* line 610
IsTableLine(line) ==
    /\ Contains(line, "|")
    /\ StartsWith(Strip(line), <<"|">>)
    /\ EndsWith(Strip(line), <<"|">>)

\* line 612
TableCells(line) ==
    LET parts == Split(Strip(line), "|")
        inner == SubSeq(parts, 2, Len(parts) - 1)
    IN  [n \in 1..Len(inner) |-> Strip(inner[n])]

\* a separator test that does not ask for a "-"
IsSeparatorNoDash(cells) ==
    \A n \in 1..Len(cells) :
        Strip(cells[n]) # <<>> =>
            \A m \in 1..Len(cells[n]) : cells[n][m] \in WS \cup {"-", ":"}

\* line 614
IsSeparator(cells) ==
    \A n \in 1..Len(cells) :
        Strip(cells[n]) # <<>> =>
            /\ \A m \in 1..Len(cells[n]) : cells[n][m] \in WS \cup {"-", ":"}
            /\ Contains(cells[n], "-")

\* lines 618-626
Alignment(cell) ==
    LET c == Strip(cell)
    IN  IF StartsWith(c, <<":">>) /\ EndsWith(c, <<":">>) THEN "center"
        ELSE IF EndsWith(c, <<":">>) THEN "right"
        ELSE "left"

\* line 639
IsBlockquote(line) == StartsWith(LStrip(line), <<">">>)

\* line 651: three or more of "-", "*", "_", each with optional whitespace
\* around it, and nothing else, on the stripped line
IsHorizontalRule(line) ==
    LET t == Strip(line)
    IN  /\ \A n \in 1..Len(t) : t[n] \in WS \cup {"-", "*", "_"}
        /\ Cardinality({n \in 1..Len(t) : t[n] \in {"-", "*", "_"}}) >= 3

-----------------------------------------------------------------------------
(* _convert_body: the line loop.  s is the record of the loop's locals.    *)

\* '\n'.join(ls) as one text, the line break being the symbol "\n"
RECURSIVE JoinNL(_)
JoinNL(ls) ==
    IF ls = <<>> THEN <<>>
    ELSE IF Len(ls) = 1 THEN ls[1]
    ELSE ls[1] \o <<"\n">> \o JoinNL(Tail(ls))

Section(level, text, items) == [level |-> level, title |-> text, items |-> items]

\* "if cur: cur['items'].append(item) else: preface.append(item)"
AddItem(s, item) ==
    IF s.cur # None
    THEN [s EXCEPT !.cur = <<[@[1] EXCEPT !.items = Append(@, item)]>>]
    ELSE [s EXCEPT !.preface = Append(@, item)]

\* a flush that leaves the lines in the buffer
flush_keep_buffer(s) ==
    IF s.parabuf # <<>>
    THEN LET text == JoinNL(s.parabuf)
         IN  IF StripChars(text, WS \cup {"\n"}) # <<>>
             THEN AddItem(s, [type |-> "paragraph", text |-> text])
             ELSE s
    ELSE s

\* lines 487-496
flush_para_buffer(s) ==
    IF s.parabuf # <<>>
    THEN LET text == JoinNL(s.parabuf)
             s1 == IF StripChars(text, WS \cup {"\n"}) # <<>>
                   THEN AddItem(s, [type |-> "paragraph", text |-> text])
                   ELSE s
         IN  [s1 EXCEPT !.parabuf = <<>>]
    ELSE s

\* lines 568-575 (level 2) and 576-583 (level 3)
OpenSection(s, level, text) ==
    LET s1 == IF s.cur # None
              THEN [s EXCEPT !.sections = Append(@, s.cur[1])]
              ELSE IF s.preface # <<>>
              THEN [s EXCEPT !.sections = Append(@, Section(0, <<>>, s.preface)),
                             !.preface = <<>>]
              ELSE s
    IN  [s1 EXCEPT !.cur = <<Section(level, text, <<>>)>>]

\* a fence that takes the language of a code block from its closing line
LexFenceCloseLang(s, line) ==
    LET fence == Strip(line)
    IN  IF ~s.in_code
        THEN [s EXCEPT !.in_code = TRUE,
                       !.code_lang = Strip(Drop(fence, 3)),
                       !.buf_code = <<>>]
        ELSE [AddItem(flush_para_buffer(s),
                      [type |-> "code", code |-> JoinLines(s.buf_code),
                       lang |-> Strip(Drop(fence, 3))])
                EXCEPT !.in_code = FALSE, !.code_lang = <<>>, !.buf_code = <<>>]

\* lines 503-520: a code fence line
LexFence(s, line) ==
    LET fence == Strip(line)
    IN  IF ~s.in_code
        THEN [s EXCEPT !.in_code = TRUE,
                       !.code_lang = Strip(Drop(fence, 3)),
                       !.buf_code = <<>>]
        ELSE [AddItem(flush_para_buffer(s),
                      [type |-> "code", code |-> JoinLines(s.buf_code),
                       lang |-> s.code_lang])
                EXCEPT !.in_code = FALSE, !.code_lang = <<>>, !.buf_code = <<>>]

\* lines 555-591: an ATX header
LexHeading(s, hm) ==
    IF hm.level \in {2, 3}
    THEN OpenSection(flush_para_buffer(s), hm.level, hm.text)
    ELSE AddItem(flush_para_buffer(s),
                 [type |-> "heading", text |-> hm.text, level |-> hm.level])

\* lines 610-636: a table row
LexTable(s, line) ==
    LET cells == TableCells(line)
    IN  IF IsSeparator(cells)
        THEN AddItem(flush_para_buffer(s),
                     [type |-> "table_separator",
                      alignments |-> [n \in 1..Len(cells) |-> Alignment(cells[n])]])
        ELSE AddItem(flush_para_buffer(s),
                     [type |-> "table_row", cells |-> cells])

\* a text rule that ends the paragraph at a blank line
LexTextBlankFlush(s, line) ==
    IF Strip(line) # <<>> THEN [s EXCEPT !.parabuf = Append(@, line)]
    ELSE flush_para_buffer(s)

\* lines 661-663: a line no rule matched
LexText(s, line) ==
    IF Strip(line) # <<>> THEN [s EXCEPT !.parabuf = Append(@, line)]
    ELSE s

\* a loop body that tests the horizontal rule before the list item
LexLineRuleFirst(s, line) ==
    LET m == ImageMatch(line)
        hm == AtxMatch(line)
        list_match == ListMatch(line)
    IN  IF IsFenceLine(line) THEN LexFence(s, line)
        ELSE IF s.in_code THEN [s EXCEPT !.buf_code = Append(@, line)]
        ELSE IF m.ok
        THEN AddItem(flush_para_buffer(s),
                     [type |-> "image", src |-> m.src, alt |-> m.alt,
                      title |-> m.title])
        ELSE IF hm.ok THEN LexHeading(s, hm)
        ELSE IF IsHorizontalRule(line)
        THEN AddItem(flush_para_buffer(s), [type |-> "horizontal_rule"])
        ELSE IF list_match.ok
        THEN AddItem(flush_para_buffer(s),
                     [type |-> "list_item", text |-> list_match.item_text,
                      indent |-> list_match.indent,
                      is_ordered |-> list_match.is_ordered])
        ELSE IF IsTableLine(line) THEN LexTable(s, line)
        ELSE IF IsBlockquote(line)
        THEN AddItem(flush_para_buffer(s),
                     [type |-> "blockquote", text |-> Strip(Tail(LStrip(line)))])
        ELSE LexText(s, line)

\* lines 499-665: one iteration of the while loop, on line
LexLine(s, line) ==
    LET m == ImageMatch(line)
        hm == AtxMatch(line)
        list_match == ListMatch(line)
    IN  IF IsFenceLine(line) THEN LexFence(s, line)
        ELSE IF s.in_code THEN [s EXCEPT !.buf_code = Append(@, line)]
        ELSE IF m.ok
        THEN AddItem(flush_para_buffer(s),
                     [type |-> "image", src |-> m.src, alt |-> m.alt,
                      title |-> m.title])
        ELSE IF hm.ok THEN LexHeading(s, hm)
        ELSE IF list_match.ok
        THEN AddItem(flush_para_buffer(s),
                     [type |-> "list_item", text |-> list_match.item_text,
                      indent |-> list_match.indent,
                      is_ordered |-> list_match.is_ordered])
        ELSE IF IsTableLine(line) THEN LexTable(s, line)
        ELSE IF IsBlockquote(line)
        THEN AddItem(flush_para_buffer(s),
                     [type |-> "blockquote", text |-> Strip(Tail(LStrip(line)))])
        ELSE IF IsHorizontalRule(line)
        THEN AddItem(flush_para_buffer(s), [type |-> "horizontal_rule"])
        ELSE LexText(s, line)

\* an end of input that emits the open code buffer as a Code token
CloseSectionsFlushCode(s) ==
    LET f == IF s.in_code
             THEN AddItem(flush_para_buffer(s),
                          [type |-> "code", code |-> JoinLines(s.buf_code),
                           lang |-> s.code_lang])
             ELSE flush_para_buffer(s)
    IN  IF f.cur # None THEN Append(f.sections, f.cur[1])
        ELSE IF f.preface # <<>>
        THEN Append(f.sections, Section(0, <<>>, f.preface))
        ELSE f.sections

\* lines 667-672: the end of input
CloseSections(s) ==
    LET f == flush_para_buffer(s)
    IN  IF f.cur # None THEN Append(f.sections, f.cur[1])
        ELSE IF f.preface # <<>>
        THEN Append(f.sections, Section(0, <<>>, f.preface))
        ELSE f.sections

\* lines 464-472
_strip_front_matter(ls) ==
    LET e == FindEnd(ls, 2)
    IN  IF Len(ls) >= 3 /\ Strip(ls[1]) = Fence /\ e # 0
        THEN Drop(ls, e)
        ELSE ls

-----------------------------------------------------------------------------
(* _build_list_structure and _group_list_and_table_items                   *)

\* a node (text, nested, nested_ordered); None and False are both FALSE,
\* no nested list is the empty sequence
ListNode(text, nested, nested_ordered) ==
    [text |-> text, nested |-> nested, nested_ordered |-> nested_ordered]

\* lines 760-771: where the inner while stops, from index n on
RECURSIVE NestedRunEnd(_, _, _)
NestedRunEnd(items, n, nested_indent) ==
    IF n > Len(items) THEN n
    ELSE IF items[n].indent < nested_indent THEN n
    ELSE NestedRunEnd(items, n + 1, nested_indent)

\* lines 751-779: the outer while, from index n on, result being built
RECURSIVE BuildFrom(_, _, _, _)
BuildFrom(items, n, base_indent, res) ==
    IF n > Len(items) THEN res
    ELSE IF items[n].indent > base_indent
    THEN LET nested_indent == items[n].indent
             e == NestedRunEnd(items, n, nested_indent)
             nested_structure ==
                 BuildFrom(SubSeq(items, n, e - 1), 1, nested_indent, <<>>)
         IN  BuildFrom(items, e, base_indent,
                       IF res # <<>>
                       THEN [res EXCEPT ![Len(res)] =
                                ListNode(@.text, nested_structure, FALSE)]
                       ELSE res)
    ELSE BuildFrom(items, n + 1, base_indent,
                   Append(res, ListNode(items[n].text, None, None)))

\* lines 746-781
_build_list_structure(items, base_indent, is_ordered) ==
    BuildFrom(items, 1, base_indent, <<>>)

\* a run that goes on over an item of the other kind at the same indent
RECURSIVE ListRunEndAnyKind(_, _, _, _)
ListRunEndAnyKind(items, n, list_indent, list_ordered) ==
    IF n > Len(items) THEN n
    ELSE IF items[n].type # "list_item" THEN n
    ELSE IF items[n].indent < list_indent THEN n
    ELSE ListRunEndAnyKind(items, n + 1, list_indent, list_ordered)

\* lines 698-709: where the run of list items that starts at n stops
RECURSIVE ListRunEnd(_, _, _, _)
ListRunEnd(items, n, list_indent, list_ordered) ==
    IF n > Len(items) THEN n
    ELSE IF items[n].type # "list_item" THEN n
    ELSE IF \/ items[n].indent < list_indent
            \/ (items[n].indent = list_indent /\ items[n].is_ordered # list_ordered)
    THEN n
    ELSE ListRunEnd(items, n + 1, list_indent, list_ordered)

\* lines 722-733: where the run of table tokens that starts at n stops
RECURSIVE TableRunEnd(_, _)
TableRunEnd(items, n) ==
    IF n > Len(items) THEN n
    ELSE IF items[n].type \notin {"table_row", "table_separator"} THEN n
    ELSE TableRunEnd(items, n + 1)

\* lines 728-730: the rows of a run, the first one the header
RECURSIVE TableRows(_, _)
TableRows(run, is_header) ==
    IF run = <<>> THEN <<>>
    ELSE IF Head(run).type = "table_row"
    THEN <<[cells |-> Head(run).cells, is_header |-> is_header]>>
         \o TableRows(Tail(run), FALSE)
    ELSE TableRows(Tail(run), is_header)

\* lines 718, 724-725: the alignments of the last separator of a run
RECURSIVE TableAlignments(_, _)
TableAlignments(run, table_alignments) ==
    IF run = <<>> THEN table_alignments
    ELSE IF Head(run).type = "table_separator"
    THEN TableAlignments(Tail(run), Head(run).alignments)
    ELSE TableAlignments(Tail(run), table_alignments)

\* lines 692-713: the list node made of the run that starts at items[n]
GroupList(items, n, e) ==
    LET list_items == [k \in 1..(e - n) |->
                          [text |-> items[n + k - 1].text,
                           indent |-> items[n + k - 1].indent]]
    IN  [type |-> "list",
         nested |-> _build_list_structure(list_items, items[n].indent,
                                          items[n].is_ordered),
         ordered |-> items[n].is_ordered]

\* lines 689-744: the while loop, from index n on
RECURSIVE GroupFrom(_, _)
GroupFrom(items, n) ==
    IF n > Len(items) THEN <<>>
    ELSE IF items[n].type = "list_item"
    THEN LET e == ListRunEnd(items, n, items[n].indent, items[n].is_ordered)
         IN  <<GroupList(items, n, e)>> \o GroupFrom(items, e)
    ELSE IF items[n].type \in {"table_row", "table_separator"}
    THEN LET j == TableRunEnd(items, n)
             run == SubSeq(items, n, j - 1)
             table_rows == TableRows(run, TRUE)
         IN  (IF table_rows # <<>>
              THEN <<[type |-> "table", rows |-> table_rows,
                      alignments |-> TableAlignments(run, <<"left">>)]>>
              ELSE <<>>)
             \o GroupFrom(items, j)
    ELSE <<items[n]>> \o GroupFrom(items, n + 1)

\* lines 684-744
_group_list_and_table_items(items) == GroupFrom(items, 1)

-----------------------------------------------------------------------------
(* _inline_format.  Each re.sub scans the text once from the left; at a    *)
(* position where the pattern matches, the match is replaced and the scan  *)
(* goes on behind it, elsewhere the symbol is copied.                       *)

\* the characters line 1058 unescapes after a backslash
Escapable == {"#", "*", "_", "[", "]", "(", ")", Tick, "\\"}

\* line 1058
RECURSIVE UnescapeMarkdown(_)
UnescapeMarkdown(t) ==
    IF t = <<>> THEN <<>>
    ELSE IF t[1] = "\\" /\ Len(t) >= 2 /\ t[2] \in Escapable
    THEN <<t[2]>> \o UnescapeMarkdown(Drop(t, 2))
    ELSE <<t[1]>> \o UnescapeMarkdown(Tail(t))

\* line 1060, html.unescape: the entity words of the alphabet become their
\* character; no other symbols of the alphabet spell an entity
UnescapeChar(c) ==
    CASE c = "&lt;" -> "<"
      [] c = "&gt;" -> ">"
      [] c = "&amp;" -> "&"
      [] OTHER -> c

HtmlUnescape(t) == [n \in 1..Len(t) |-> UnescapeChar(t[n])]

\* line 1067
RestoreApostrophes(t) ==
    [n \in 1..Len(t) |-> IF t[n] \in {"&#x27;", "&#39;"} THEN "'" ELSE t[n]]

\* the closing "**" of the lazy group opened behind position p: the least
\* e >= from with "**" at e, no line break before it in the group; or 0
RECURSIVE BoldClose(_, _)
BoldClose(t, from) ==
    IF from + 1 > Len(t) THEN 0
    ELSE IF t[from - 1] = "\n" THEN 0
    ELSE IF t[from] = "*" /\ t[from + 1] = "*" THEN from
    ELSE BoldClose(t, from + 1)

\* line 1070, the pattern at position p: the index of the closing "**", or 0
BoldAt(t, p) ==
    IF p + 1 <= Len(t) /\ t[p] = "*" /\ t[p + 1] = "*"
    THEN BoldClose(t, p + 3)
    ELSE 0

\* line 1070
RECURSIVE SubBold(_, _)
SubBold(t, p) ==
    IF p > Len(t) THEN <<>>
    ELSE LET e == BoldAt(t, p)
         IN  IF e # 0
             THEN <<"<strong>">> \o SubSeq(t, p + 2, e - 1) \o <<"</strong>">>
                  \o SubBold(t, e + 2)
             ELSE <<t[p]>> \o SubBold(t, p + 1)

\* a "*" with no "*" before it and none behind it
LoneStar(t, n) ==
    /\ n <= Len(t) /\ t[n] = "*"
    /\ (n > 1 => t[n - 1] # "*")
    /\ (n < Len(t) => t[n + 1] # "*")

RECURSIVE ItalicClose(_, _)
ItalicClose(t, from) ==
    IF from > Len(t) THEN 0
    ELSE IF t[from - 1] = "\n" THEN 0
    ELSE IF LoneStar(t, from) THEN from
    ELSE ItalicClose(t, from + 1)

\* line 1073, the pattern at position p: the index of the closing "*", or 0
ItalicAt(t, p) == IF LoneStar(t, p) THEN ItalicClose(t, p + 2) ELSE 0

\* line 1073
RECURSIVE SubItalic(_, _)
SubItalic(t, p) ==
    IF p > Len(t) THEN <<>>
    ELSE LET e == ItalicAt(t, p)
         IN  IF e # 0
             THEN <<"<em>">> \o SubSeq(t, p + 1, e - 1) \o <<"</em>">>
                  \o SubItalic(t, e + 1)
             ELSE <<t[p]>> \o SubItalic(t, p + 1)

\* line 1083, the pattern at position p: the index of the closing
\* backquote, or 0
CodeAt(t, p) ==
    LET e == Find(t, Tick, p + 1)
    IN  IF t[p] = Tick /\ e >= p + 2 THEN e ELSE 0

\* lines 1080-1083
RECURSIVE SubCode(_, _)
SubCode(t, p) ==
    IF p > Len(t) THEN <<>>
    ELSE LET e == CodeAt(t, p)
         IN  IF e # 0
             THEN <<"<code>">> \o SubSeq(t, p + 1, e - 1) \o <<"</code>">>
                  \o SubCode(t, e + 1)
             ELSE <<t[p]>> \o SubCode(t, p + 1)

\* a bracketed group at position p followed by the symbol next: "[", one
\* symbol at least that is not "]", "]", next; the index of "]", or 0
BracketAt(t, p, next) ==
    LET c == Find(t, "]", p + 1)
    IN  IF t[p] = "[" /\ c >= p + 2 /\ c + 1 <= Len(t) /\ t[c + 1] = next
        THEN c
        ELSE 0

\* line 1096, the pattern at position p: [the index of "]", the index of ")"]
LinkAt(t, p) ==
    LET c == BracketAt(t, p, "(")
        e == Find(t, ")", c + 2)
    IN  IF c # 0 /\ e >= c + 3 THEN <<c, e>> ELSE <<0, 0>>

\* lines 1089-1095
link_replace(link_text, url) ==
    IF StartsWith(url, <<"#">>) THEN link_text
    ELSE <<"<a href=\"">> \o url \o <<"\">">> \o link_text \o <<"</a>">>

\* line 1096
RECURSIVE SubLink(_, _)
SubLink(t, p) ==
    IF p > Len(t) THEN <<>>
    ELSE LET m == LinkAt(t, p)
         IN  IF m[1] # 0
             THEN link_replace(SubSeq(t, p + 1, m[1] - 1),
                               SubSeq(t, m[1] + 2, m[2] - 1))
                  \o SubLink(t, m[2] + 1)
             ELSE <<t[p]>> \o SubLink(t, p + 1)

\* the marker "{color:" value "}" at position p, the value one symbol at
\* least that is not "}": the index of "}", or 0
ColorAt(t, p) ==
    LET e == Find(t, "}", p + 1)
    IN  IF p <= Len(t) /\ t[p] = "{color:" /\ e >= p + 2 THEN e ELSE 0

\* the closing "**" of line 1099's lazy group: as BoldClose, and the color
\* marker has to follow it
RECURSIVE BoldColorClose(_, _)
BoldColorClose(t, from) ==
    IF from + 1 > Len(t) THEN 0
    ELSE IF t[from - 1] = "\n" THEN 0
    ELSE IF t[from] = "*" /\ t[from + 1] = "*" /\ ColorAt(t, from + 2) # 0
    THEN from
    ELSE BoldColorClose(t, from + 1)

BoldColorAt(t, p) ==
    IF p + 1 <= Len(t) /\ t[p] = "*" /\ t[p + 1] = "*"
    THEN BoldColorClose(t, p + 3)
    ELSE 0

\* line 1099
RECURSIVE SubBoldColor(_, _)
SubBoldColor(t, p) ==
    IF p > Len(t) THEN <<>>
    ELSE LET e == BoldColorAt(t, p)
             k == ColorAt(t, e + 2)
         IN  IF e # 0
             THEN <<"<strong style=\"color:">> \o SubSeq(t, e + 3, k - 1)
                  \o <<";\">">> \o SubSeq(t, p + 2, e - 1) \o <<"</strong>">>
                  \o SubBoldColor(t, k + 1)
             ELSE <<t[p]>> \o SubBoldColor(t, p + 1)

\* line 1100
RECURSIVE SubSpanColor(_, _)
SubSpanColor(t, p) ==
    IF p > Len(t) THEN <<>>
    ELSE LET c == BracketAt(t, p, "{color:")
             k == ColorAt(t, c + 1)
         IN  IF c # 0 /\ k # 0
             THEN <<"<span style=\"color:">> \o SubSeq(t, c + 2, k - 1)
                  \o <<";\">">> \o SubSeq(t, p + 1, c - 1) \o <<"</span>">>
                  \o SubSpanColor(t, k + 1)
             ELSE <<t[p]>> \o SubSpanColor(t, p + 1)

\* lines 1054-1102
_inline_format(text) ==
    LET t1 == UnescapeMarkdown(text)
        t2 == HtmlUnescape(t1)
        t3 == RestoreApostrophes(_escape_html(t2))
        t4 == SubBold(t3, 1)
        t5 == SubItalic(t4, 1)
        t6 == SubCode(t5, 1)
        t7 == SubLink(t6, 1)
        t8 == SubBoldColor(t7, 1)
    IN  SubSpanColor(t8, 1)

-----------------------------------------------------------------------------
(* Rendering.  A tag token names the tag and what of its attributes varies *)
(* with the document (its role, reference styling, alignment, striping);   *)
(* the colors and sizes of the StyleConfig are left out of the token.      *)

\* str.replace(pat, rep)
RECURSIVE ReplaceAll(_, _, _)
ReplaceAll(t, pat, rep) ==
    IF t = <<>> THEN <<>>
    ELSE IF StartsWith(t, pat) THEN rep \o ReplaceAll(Drop(t, Len(pat)), pat, rep)
    ELSE <<t[1]>> \o ReplaceAll(Tail(t), pat, rep)

\* sep.join(parts)
RECURSIVE Join(_, _)
Join(parts, sep) ==
    IF parts = <<>> THEN <<>>
    ELSE IF Len(parts) = 1 THEN parts[1]
    ELSE parts[1] \o sep \o Join(Tail(parts), sep)

\* the closing of a one-cell table without its last tag
TableCloseOpen == <<"</td>", "</tr>">>

TableClose == <<"</td>", "</tr>", "</table>">>

\* lines 300-301
RECURSIVE DropTrailingBlank(_)
DropTrailingBlank(ls) ==
    IF ls # <<>> /\ Strip(ls[Len(ls)]) = <<>>
    THEN DropTrailingBlank(Take(ls, Len(ls) - 1))
    ELSE ls

\* lines 307-314: the least indentation of a line that is not blank
RECURSIVE MinIndent(_)
MinIndent(ls) ==
    IF ls = <<>> THEN -1
    ELSE LET rest == MinIndent(Tail(ls))
             indent == CountLeading(Head(ls), WS)
         IN  IF Strip(Head(ls)) = <<>> THEN rest
             ELSE IF rest = -1 THEN indent
             ELSE Min(indent, rest)

Nbsp2 == <<"&nbsp;", "&nbsp;">>

\* one line of a code block that keeps its indentation
CodeLineKeepIndent(line, n, min_indent) ==
    LET spaced == ReplaceAll(ReplaceAll(_escape_html(line),
                                        <<" ", " ", " ", " ">>, Nbsp2 \o Nbsp2),
                             <<" ", " ">>, Nbsp2)
    IN  <<"<span:lineno>", ToString(n), "</span>">> \o spaced

\* lines 326-341: one line of a code block, numbered n
CodeLine(line, n, min_indent) ==
    LET content == IF Len(line) >= min_indent THEN Drop(line, min_indent) ELSE line
        spaced == ReplaceAll(ReplaceAll(_escape_html(content),
                                        <<" ", " ", " ", " ">>, Nbsp2 \o Nbsp2),
                             <<" ", " ">>, Nbsp2)
    IN  <<"<span:lineno>", ToString(n), "</span>">> \o spaced

\* lines 296-355
format_code_block(code, language) ==
    LET ls == DropTrailingBlank(code)
        min_indent == IF MinIndent(ls) = -1 THEN 0 ELSE MinIndent(ls)
        processed_lines == [n \in 1..Len(ls) |-> CodeLine(ls[n], n, min_indent)]
    IN  IF ls = <<>> THEN <<>>
        ELSE <<"<table:code>", "<tr>", "<td:code>", "<pre>">>
             \o Join(processed_lines, <<"<br>", "\n">>)
             \o <<"</pre>">> \o TableClose

\* lines 364-378
process_image(src, alt, title_, image_number) ==
    <<"<table:img>", "<tr>", "<td:center>", "<img src=\"">> \o src \o <<"\"">>
    \o (IF alt # <<>> THEN <<" alt=\"">> \o _escape_html(alt) \o <<"\"">> ELSE <<>>)
    \o (IF title_ # <<>> THEN <<" title=\"">> \o _escape_html(title_) \o <<"\"">>
        ELSE <<>>)
    \o <<" />">> \o TableClose

HTag(level) ==
    CASE level = 4 -> <<"<h4>", "</h4>">>
      [] level = 5 -> <<"<h5>", "</h5>">>
      [] OTHER -> <<"<h6>", "</h6>">>

\* lines 900-935
_convert_heading(text, level, is_reference) ==
    LET t == _inline_format(text)
    IN  IF level = 1
        THEN <<"<table:h1>", "<tr>", "<td:center>", "<h1>">> \o t
             \o <<"</h1>">> \o TableClose
        ELSE IF level = 2
        THEN <<"<table:h2>", "<tr>", "<td:h2>", "<span:h2>">> \o t
             \o <<"</span>">> \o TableClose
        ELSE IF level = 3
        THEN <<"<table:h3>", "<tr>", "<td:h3>">> \o t \o TableClose
        ELSE <<HTag(level)[1]>> \o t \o <<HTag(level)[2]>>

\* lines 937-951
_convert_paragraph(text, is_reference) ==
    <<IF is_reference THEN "<p:ref>" ELSE "<p>">>
    \o ReplaceAll(_inline_format(text), <<"\n">>, <<"<br>">>)
    \o <<"</p>">>

\* lines 953-961
_convert_horizontal_rule == <<"<table:hr>", "<tr>", "<td:hr>">> \o TableClose

\* lines 963-977
_convert_blockquote(text, is_reference) ==
    <<"<table:quote>", "<tr>", "<td:quote>", "<p:quote>">>
    \o _inline_format(text) \o <<"</p>">> \o TableClose

ListTag(is_ordered, is_reference) ==
    IF is_ordered
    THEN <<IF is_reference THEN "<ol:ref>" ELSE "<ol>", "</ol>">>
    ELSE <<IF is_reference THEN "<ul:ref>" ELSE "<ul>", "</ul>">>

\* lines 979-998
RECURSIVE _convert_list(_, _, _)
_convert_list(list_structure, is_ordered, is_reference) ==
    LET tag == ListTag(is_ordered, is_reference)
        items_html ==
            [n \in 1..Len(list_structure) |->
                <<"<li>">> \o _inline_format(list_structure[n].text)
                \o (IF list_structure[n].nested # <<>>
                    THEN _convert_list(list_structure[n].nested,
                                       list_structure[n].nested_ordered,
                                       is_reference)
                    ELSE <<>>)
                \o <<"</li>">>]
    IN  <<tag[1]>> \o Flatten(items_html) \o <<tag[2]>>

\* lines 1025-1030: the tag of one cell
CellTag(is_header, align, idx) ==
    IF is_header
    THEN CASE align = "center" -> <<"<th:center>", "</th>">>
           [] align = "right" -> <<"<th:right>", "</th>">>
           [] OTHER -> <<"<th:left>", "</th>">>
    ELSE IF idx % 2 = 0
    THEN CASE align = "center" -> <<"<td:center:even>", "</td>">>
           [] align = "right" -> <<"<td:right:even>", "</td>">>
           [] OTHER -> <<"<td:left:even>", "</td>">>
    ELSE CASE align = "center" -> <<"<td:center:odd>", "</td>">>
           [] align = "right" -> <<"<td:right:odd>", "</td>">>
           [] OTHER -> <<"<td:left:odd>", "</td>">>

\* lines 1014-1032: one row, idx counted from 0
RowHtml(row, idx, alignments) ==
    LET row_cells ==
            [c \in 1..Len(row.cells) |->
                LET align == IF c <= Len(alignments) THEN alignments[c] ELSE "left"
                    tag == CellTag(row.is_header, align, idx)
                IN  <<tag[1]>> \o _inline_format(row.cells[c]) \o <<tag[2]>>]
    IN  <<"<tr>">> \o Flatten(row_cells) \o <<"</tr>">>

\* lines 1033-1034: header_html is the html of the last header row
RECURSIVE HeaderHtml(_, _, _)
HeaderHtml(table_rows, n, alignments) ==
    IF n = 0 THEN <<>>
    ELSE IF table_rows[n].is_header THEN RowHtml(table_rows[n], n - 1, alignments)
    ELSE HeaderHtml(table_rows, n - 1, alignments)

\* lines 1035-1036: body_html is the html of the other rows
BodyHtml(table_rows, alignments) ==
    Flatten([n \in 1..Len(table_rows) |->
                IF table_rows[n].is_header THEN <<>>
                ELSE RowHtml(table_rows[n], n - 1, alignments)])

\* lines 1000-1052
_convert_table(table_rows, alignments, is_reference) ==
    LET header_html == HeaderHtml(table_rows, Len(table_rows), alignments)
        body_html == BodyHtml(table_rows, alignments)
    IN  IF table_rows = <<>> THEN <<>>
        ELSE <<"<table:outer>", "<tr>", "<td:outer>", "<table:data>">>
             \o (IF header_html # <<>>
                 THEN <<"<thead>">> \o header_html \o <<"</thead>">> ELSE <<>>)
             \o (IF body_html # <<>>
                 THEN <<"<tbody>">> \o body_html \o <<"</tbody>">> ELSE <<>>)
             \o <<"</table>">> \o TableClose

-----------------------------------------------------------------------------
(* _convert_section and _generate_html                                      *)

\* the comparison of line 791 without str.lower
LowerExact(c) == c

\* str.lower, on the words a title can hold
Lower(c) ==
    CASE c = "References" -> "references"
      [] c = "Bibliography" -> "bibliography"
      [] OTHER -> c

\* line 790; the two Chinese keywords are written in pinyin
ref_keywords == {"cankaowenxian", "references", "cankao", "bibliography"}

\* lines 788-791
IsReference(title_) ==
    title_ # <<>> /\ \E n \in 1..Len(title_) : Lower(title_[n]) \in ref_keywords

\* lines 825 and 882: the images a section counts
CountImages(content) ==
    Cardinality({n \in 1..Len(content) : content[n].type = "image"})

\* lines 825-826 and 882-883: self.image_counter when the n-th item of
\* content is rendered, counter being its value when the section begins
ImageNumber(content, n, counter) == counter + CountImages(SubSeq(content, 1, n))

\* lines 802-846: one item of a card
CardItem(item, is_reference, image_number) ==
    CASE item.type = "heading" ->
            _convert_heading(item.text, item.level, is_reference)
      [] item.type = "paragraph" ->
            IF StripChars(item.text, WS \cup {"\n"}) # <<>>
            THEN _convert_paragraph(item.text, is_reference) ELSE <<>>
      [] item.type = "code" -> format_code_block(item.code, item.lang)
      [] item.type = "image" ->
            process_image(item.src, item.alt, item.title, image_number)
      [] item.type = "list" ->
            IF item.nested # <<>>
            THEN _convert_list(item.nested, item.ordered, is_reference) ELSE <<>>
      [] item.type = "table" ->
            IF item.rows # <<>>
            THEN _convert_table(item.rows, item.alignments, is_reference) ELSE <<>>
      [] item.type = "horizontal_rule" -> _convert_horizontal_rule
      [] item.type = "blockquote" -> _convert_blockquote(item.text, is_reference)
      [] OTHER -> <<>>

\* lines 802-846: the item appends to card_content and sets has_content
AppendsToCard(item) ==
    CASE item.type = "paragraph" -> StripChars(item.text, WS \cup {"\n"}) # <<>>
      [] item.type = "list" -> item.nested # <<>>
      [] item.type = "table" -> item.rows # <<>>
      [] item.type \in {"heading", "code", "image", "horizontal_rule",
                        "blockquote"} -> TRUE
      [] OTHER -> FALSE

\* lines 868-896: one item outside a card
PlainItem(item, is_reference, image_number) ==
    CASE item.type = "paragraph" -> _convert_paragraph(item.text, is_reference)
      [] item.type = "code" -> format_code_block(item.code, item.lang)
      [] item.type = "image" ->
            process_image(item.src, item.alt, item.title, image_number)
      [] item.type = "list" -> _convert_list(item.nested, item.ordered, is_reference)
      [] item.type = "table" ->
            _convert_table(item.rows, item.alignments, is_reference)
      [] item.type = "horizontal_rule" -> _convert_horizontal_rule
      [] item.type = "blockquote" -> _convert_blockquote(item.text, is_reference)
      [] OTHER -> <<>>

\* lines 848-865
Card(card_html, is_reference) ==
    <<"<table:card>", "<tr>", IF is_reference THEN "<td:card:ref>" ELSE "<td:card>">>
    \o card_html \o TableClose

\* lines 783-898
_convert_section(level, title_, content, counter) ==
    LET is_reference == IsReference(title_)
        heading == IF title_ # <<>> /\ level > 0
                   THEN _convert_heading(title_, level, FALSE) ELSE <<>>
        card_content == Flatten([n \in 1..Len(content) |->
                                    CardItem(content[n], is_reference,
                                             ImageNumber(content, n, counter))])
        plain == Flatten([n \in 1..Len(content) |->
                             PlainItem(content[n], is_reference,
                                       ImageNumber(content, n, counter))])
        has_content == \E n \in 1..Len(content) : AppendsToCard(content[n])
    IN  IF level \in {2, 3} /\ content # <<>>
        THEN heading \o (IF has_content
                         THEN Card(card_content, is_reference) ELSE <<>>)
        ELSE heading \o plain

\* bool(x) of a front-matter value
Truthy(val) == val.v # <<>>

\* _escape_html raises AttributeError on a list (html.escape calls s.replace)
EscapeRaises(val) == val.kind = "list"

\* lines 1110, 1124-1125, 1142: the calls of _escape_html that raise
GenerateRaises(title_, date, source_) ==
    \/ Truthy(title_) /\ EscapeRaises(title_)
    \/ Truthy(date) /\ EscapeRaises(date)
    \/ Truthy(source_) /\ EscapeRaises(source_)

\* lines 1104-1155, when no call raises; tags is a list
_generate_html(title_, date, tags, body_html, source_) ==
    LET header == IF Truthy(title_)
                  THEN <<"<table:header>", "<tr>", "<td:header>">>
                       \o _escape_html(title_.v) \o TableClose
                  ELSE <<>>
        tag_str == Join([n \in 1..Len(tags.v) |->
                            <<"#">> \o _escape_html(tags.v[n])], <<" ">>)
        meta_parts == (IF Truthy(date) THEN <<_escape_html(date.v)>> ELSE <<>>)
                      \o (IF Truthy(tags) THEN <<tag_str>> ELSE <<>>)
        meta == IF (Truthy(date) \/ Truthy(tags)) /\ meta_parts # <<>>
                THEN <<"<table:meta>", "<tr>", "<td:meta>">>
                     \o Join(meta_parts, <<" | ">>) \o TableClose
                ELSE <<>>
        footer == IF Truthy(source_)
                  THEN <<"<table:source>", "<tr>", "<td:source>", "laiyuan: ",
                         "<a href=\"">> \o _escape_html(source_.v) \o <<"\">">>
                       \o _escape_html(source_.v) \o <<"</a>">> \o TableClose
                  ELSE <<>>
    IN  header \o meta \o body_html \o footer

-----------------------------------------------------------------------------
(* StyleConfig, STYLES and MarkdownToWeChatConverter.__init__               *)

\* lines 23-69: the defaults of the dataclass StyleConfig (every field but
\* the display name)
StyleConfig ==
    [
      header_bg_color |-> "#3C3C3C",
      header_text_color |-> "#FFFFFF",
      header_font_size |-> "20px",
      card_bg_color |-> "#FFFFFF",
      card_border_color |-> "#D9D9D9",
      card_text_color |-> "#333333",
      h2_h3_card_bg_color |-> "#FAFAFA",
      h2_h3_card_border_color |-> "#E8E8E8",
      h2_title_line_color |-> "#333333",
      h2_title_text_color |-> "#333333",
      h2_title_font_size |-> "18px",
      h3_title_bg_color |-> "#F5F5F5",
      h3_title_border_color |-> "#3C3C3C",
      h3_title_text_color |-> "#333333",
      h3_title_font_size |-> "16px",
      code_bg_color |-> "#F8F9FA",
      code_border_color |-> "#E9ECEF",
      code_text_color |-> "#212529",
      inline_code_bg_color |-> "#F1F3F5",
      inline_code_text_color |-> "#E83E8C",
      paragraph_font_size |-> "16px",
      paragraph_line_height |-> "1.75",
      paragraph_color |-> "#333333",
      blockquote_bg_color |-> "#F8F9FA",
      blockquote_border_color |-> "#DEE2E6",
      blockquote_text_color |-> "#6C757D",
      table_header_bg_color |-> "#F1F3F5",
      table_border_color |-> "#DEE2E6",
      link_color |-> "#0066CC",
      meta_text_color |-> "#888888",
      meta_font_size |-> "12px",
      source_text_color |-> "#999999",
      source_font_size |-> "12px" ]

\* a registry whose card background keeps an alpha channel
StylesWithAlpha ==
    [ key \in {"academic_gray", "festival", "tech", "announcement"} |->
          [StyleConfig EXCEPT !.h2_h3_card_bg_color = "rgba(250,250,250,0.9)"] ]

\* lines 74-218: the presets (every field but the display name)
STYLES ==
    [ academic_gray |->
          [ header_bg_color |-> "#2C3E50",
            header_text_color |-> "#FFFFFF",
            header_font_size |-> "22px",
            card_bg_color |-> "#FFFFFF",
            card_border_color |-> "#E0E0E0",
            card_text_color |-> "#2C3E50",
            h2_h3_card_bg_color |-> "#FAFAFA",
            h2_h3_card_border_color |-> "#E8E8E8",
            h2_title_line_color |-> "#34495E",
            h2_title_text_color |-> "#2C3E50",
            h2_title_font_size |-> "20px",
            h3_title_bg_color |-> "#ECF0F1",
            h3_title_border_color |-> "#34495E",
            h3_title_text_color |-> "#34495E",
            h3_title_font_size |-> "17px",
            code_bg_color |-> "#F8F9FA",
            code_border_color |-> "#E9ECEF",
            code_text_color |-> "#2C3E50",
            inline_code_bg_color |-> "#F1F3F5",
            inline_code_text_color |-> "#C0392B",
            paragraph_font_size |-> "16px",
            paragraph_line_height |-> "1.8",
            paragraph_color |-> "#2C3E50",
            blockquote_bg_color |-> "#F8F9FA",
            blockquote_border_color |-> "#BDC3C7",
            blockquote_text_color |-> "#5D6D7E",
            table_header_bg_color |-> "#ECF0F1",
            table_border_color |-> "#BDC3C7",
            link_color |-> "#2980B9",
            meta_text_color |-> "#7F8C8D",
            meta_font_size |-> "13px",
            source_text_color |-> "#95A5A6",
            source_font_size |-> "12px" ],
      festival |->
          [ header_bg_color |-> "#E74C3C",
            header_text_color |-> "#FFFFFF",
            header_font_size |-> "22px",
            card_bg_color |-> "#FFF8E1",
            card_border_color |-> "#F39C12",
            card_text_color |-> "#5D4037",
            h2_h3_card_bg_color |-> "#FFFDE7",
            h2_h3_card_border_color |-> "#F39C12",
            h2_title_line_color |-> "#E74C3C",
            h2_title_text_color |-> "#C0392B",
            h2_title_font_size |-> "20px",
            h3_title_bg_color |-> "#FFE082",
            h3_title_border_color |-> "#E74C3C",
            h3_title_text_color |-> "#C0392B",
            h3_title_font_size |-> "17px",
            code_bg_color |-> "#FFF8E1",
            code_border_color |-> "#F39C12",
            code_text_color |-> "#5D4037",
            inline_code_bg_color |-> "#FFECB3",
            inline_code_text_color |-> "#E65100",
            paragraph_font_size |-> "16px",
            paragraph_line_height |-> "1.8",
            paragraph_color |-> "#4E342E",
            blockquote_bg_color |-> "#FFF8E1",
            blockquote_border_color |-> "#FFB74D",
            blockquote_text_color |-> "#6D4C41",
            table_header_bg_color |-> "#FFE082",
            table_border_color |-> "#FFB74D",
            link_color |-> "#D84315",
            meta_text_color |-> "#8D6E63",
            meta_font_size |-> "13px",
            source_text_color |-> "#A1887F",
            source_font_size |-> "12px" ],
      tech |->
          [ header_bg_color |-> "#1565C0",
            header_text_color |-> "#FFFFFF",
            header_font_size |-> "22px",
            card_bg_color |-> "#E3F2FD",
            card_border_color |-> "#42A5F5",
            card_text_color |-> "#0D47A1",
            h2_h3_card_bg_color |-> "#E8F4FD",
            h2_h3_card_border_color |-> "#42A5F5",
            h2_title_line_color |-> "#1565C0",
            h2_title_text_color |-> "#0D47A1",
            h2_title_font_size |-> "20px",
            h3_title_bg_color |-> "#BBDEFB",
            h3_title_border_color |-> "#1565C0",
            h3_title_text_color |-> "#0D47A1",
            h3_title_font_size |-> "17px",
            code_bg_color |-> "#E3F2FD",
            code_border_color |-> "#64B5F6",
            code_text_color |-> "#0D47A1",
            inline_code_bg_color |-> "#BBDEFB",
            inline_code_text_color |-> "#1565C0",
            paragraph_font_size |-> "16px",
            paragraph_line_height |-> "1.8",
            paragraph_color |-> "#0D47A1",
            blockquote_bg_color |-> "#E3F2FD",
            blockquote_border_color |-> "#64B5F6",
            blockquote_text_color |-> "#1565C0",
            table_header_bg_color |-> "#BBDEFB",
            table_border_color |-> "#64B5F6",
            link_color |-> "#0277BD",
            meta_text_color |-> "#546E7A",
            meta_font_size |-> "13px",
            source_text_color |-> "#78909C",
            source_font_size |-> "12px" ],
      announcement |->
          [ header_bg_color |-> "#C0392B",
            header_text_color |-> "#FFFFFF",
            header_font_size |-> "22px",
            card_bg_color |-> "#FEF5E7",
            card_border_color |-> "#E67E22",
            card_text_color |-> "#922B21",
            h2_h3_card_bg_color |-> "#FEF9E7",
            h2_h3_card_border_color |-> "#E67E22",
            h2_title_line_color |-> "#C0392B",
            h2_title_text_color |-> "#922B21",
            h2_title_font_size |-> "20px",
            h3_title_bg_color |-> "#FAD7A0",
            h3_title_border_color |-> "#C0392B",
            h3_title_text_color |-> "#922B21",
            h3_title_font_size |-> "17px",
            code_bg_color |-> "#FEF5E7",
            code_border_color |-> "#E67E22",
            code_text_color |-> "#922B21",
            inline_code_bg_color |-> "#FAD7A0",
            inline_code_text_color |-> "#C0392B",
            paragraph_font_size |-> "16px",
            paragraph_line_height |-> "1.8",
            paragraph_color |-> "#7B241C",
            blockquote_bg_color |-> "#FEF5E7",
            blockquote_border_color |-> "#E67E22",
            blockquote_text_color |-> "#A04000",
            table_header_bg_color |-> "#FAD7A0",
            table_border_color |-> "#E67E22",
            link_color |-> "#C0392B",
            meta_text_color |-> "#A04000",
            meta_font_size |-> "12px",
            source_text_color |-> "#A1887F",
            source_font_size |-> "12px" ] ]

\* list(STYLES.keys())
StyleKeys == <<"academic_gray", "festival", "tech", "announcement">>

\* an __init__ that falls back to the default preset
ConstructDefault ==
    /\ pc = "new"
    /\ style_config' = IF style \in DOMAIN styles THEN styles[style]
                       ELSE styles.academic_gray
    /\ image_counter' = 0
    /\ pc' = "start"
    /\ UNCHANGED <<md_content, title, source, front_matter, body, lines, i,
                   lexVars, html, result, span, formatted, style, error,
                   styles, scriptVars>>

\* lines 419-425: __init__
Construct ==
    /\ pc = "new"
    /\ IF style \notin DOMAIN styles
       THEN /\ error' = [type |-> "ValueError",
                         message |-> <<"Unknown style: ", style, ". Available: ">>
                                     \o StyleKeys]
            /\ pc' = "value_error"
            /\ UNCHANGED <<style_config, image_counter>>
       ELSE /\ style_config' = styles[style]
            /\ image_counter' = 0
            /\ pc' = "start"
            /\ UNCHANGED error
    /\ UNCHANGED <<md_content, title, source, front_matter, body, lines, i,
                   lexVars, html, result, span, formatted, style, styles,
                   scriptVars>>

\* the fields of the style configuration a tag of the renderer interpolates,
\* in the order of its f-string: "css" is the value as it is, "attr" the
\* value without its "#" (lines 322-352, 851-862, 904-932, 943-997,
\* 1017-1050, 1063-1091, 1111-1148)
StyleSlots(tok) ==
    CASE tok = "<code>" ->
            <<<<"inline_code_bg_color", "css">>, <<"inline_code_text_color",
                   "css">>>>
      [] tok = "<td:code>" ->
            <<<<"code_bg_color", "css">>, <<"code_border_color", "css">>>>
      [] tok = "<pre>" -> <<<<"code_text_color", "css">>>>
      [] tok = "<h1>" -> <<<<"h2_title_text_color", "css">>>>
      [] tok = "<td:h2>" -> <<<<"h2_title_line_color", "css">>>>
      [] tok = "<span:h2>" ->
            <<<<"h2_title_line_color", "css">>, <<"h2_title_font_size",
                   "css">>>>
      [] tok = "<td:h3>" ->
            <<<<"h3_title_border_color", "css">>, <<"h3_title_font_size",
                   "css">>, <<"h3_title_text_color", "css">>>>
      [] tok \in {"<p:ref>", "<p>"} ->
            <<<<"paragraph_line_height", "css">>, <<"paragraph_font_size",
                   "css">>, <<"paragraph_color", "css">>>>
      [] tok \in {"<td:hr>", "<td:outer>"} ->
            <<<<"table_border_color", "css">>>>
      [] tok = "<td:quote>" ->
            <<<<"blockquote_bg_color", "css">>, <<"blockquote_border_color",
                   "css">>>>
      [] tok = "<p:quote>" -> <<<<"blockquote_text_color", "css">>>>
      [] tok \in {"<ol:ref>", "<ol>", "<ul:ref>", "<ul>"} ->
            <<<<"paragraph_color", "css">>>>
      [] tok \in {"<td:card:ref>", "<td:card>"} ->
            <<<<"h2_h3_card_border_color", "css">>>>
      [] tok = "<table:header>" -> <<<<"header_bg_color", "css">>>>
      [] tok = "<td:header>" ->
            <<<<"header_text_color", "css">>, <<"header_font_size", "css">>>>
      [] tok = "<td:meta>" ->
            <<<<"meta_text_color", "css">>, <<"meta_font_size", "css">>>>
      [] tok = "<td:source>" ->
            <<<<"source_text_color", "css">>, <<"source_font_size", "css">>>>
      [] tok \in {"<h4>", "<h5>", "<h6>"} ->
            <<<<"h3_title_text_color", "css">>>>
      [] tok \in {"<th:center>", "<th:left>", "<th:right>"} ->
            <<<<"table_border_color", "css">>, <<"table_header_bg_color",
                   "css">>, <<"paragraph_color", "css">>>>
      [] tok \in {"<td:center:even>", "<td:center:odd>", "<td:left:even>",
                   "<td:left:odd>", "<td:right:even>", "<td:right:odd>"} ->
            <<<<"table_border_color", "css">>, <<"paragraph_color", "css">>>>
      [] tok = "<table:card>" -> <<<<"h2_h3_card_bg_color", "attr">>>>
      [] tok = "<table:h3>" -> <<<<"h3_title_bg_color", "attr">>>>
      [] OTHER -> <<>>

\* lines 1088-1091 and 1146: the style of a link, in the body and in the
\* source footer
LinkSlots(in_footer) ==
    IF in_footer THEN <<<<"source_text_color", "css">>>>
    ELSE <<<<"link_color", "css">>, <<"link_color", "css">>>>

\* the literals of cfg that the n-th token of t carries
Literals(t, n, cfg) ==
    LET in_footer == \E m \in 1..(n - 1) : t[m] = "<table:source>"
        slots == IF t[n] = "\">" THEN LinkSlots(in_footer) ELSE StyleSlots(t[n])
    IN  [k \in 1..Len(slots) |->
            [field |-> slots[k][1], value |-> cfg[slots[k][1]],
             form |-> slots[k][2]]]

\* a renderer that writes another paragraph tag under one of the presets
StyledByPreset(t, cfg) ==
    [n \in 1..Len(t) |->
        [tok |-> IF cfg = STYLES.festival /\ t[n] = "<p>" THEN "<p:festival>"
                 ELSE t[n],
         literals |-> Literals(t, n, cfg)]]

\* the html of the token sequence t under the style configuration cfg: each
\* token with the literals it carries
Styled(t, cfg) == [n \in 1..Len(t) |-> [tok |-> t[n], literals |-> Literals(t, n, cfg)]]

-----------------------------------------------------------------------------
(* convert(), step by step                                                  *)

\* lines 441-446 and 455: what convert() reads from the front matter
md_title == get_front_matter(front_matter, <<"title">>, Str(title))

md_date == get_front_matter(front_matter, <<"date">>, Str(<<>>))

md_tags ==
    LET tags == get_front_matter(front_matter, <<"tags">>, List(<<>>))
    IN  IF tags.kind = "str" THEN List(<<tags.v>>) ELSE tags

permalink == get_front_matter(front_matter, <<"permalink">>, Str(<<>>))

\* line 455: source or permalink
SourceOrPermalink == IF source # <<>> THEN Str(source) ELSE permalink

LexState ==
    [sections |-> sections, cur |-> cur, in_code |-> in_code,
     code_lang |-> code_lang, buf_code |-> buf_code, preface |-> preface,
     parabuf |-> parabuf]

SetLexState(s) ==
    /\ sections' = s.sections
    /\ cur' = s.cur
    /\ in_code' = s.in_code
    /\ code_lang' = s.code_lang
    /\ buf_code' = s.buf_code
    /\ preface' = s.preface
    /\ parabuf' = s.parabuf

\* the head of convert() without the reset of line 449
ParseNoReset ==
    /\ pc = "start"
    /\ front_matter' = _parse_front_matter(md_content).front_matter
    /\ body' = _parse_front_matter(md_content).body
    /\ pc' = "parsed"
    /\ UNCHANGED <<ctorVars, scriptVars>>
    /\ UNCHANGED <<md_content, title, source, image_counter, lines, i, lexVars,
                   html, result, span, formatted>>

\* lines 440-449: MarkdownParser(md_content), the counter reset
Parse ==
    /\ pc = "start"
    /\ front_matter' = _parse_front_matter(md_content).front_matter
    /\ body' = _parse_front_matter(md_content).body
    /\ image_counter' = 0
    /\ pc' = "parsed"
    /\ UNCHANGED <<ctorVars, scriptVars>>
    /\ UNCHANGED <<md_content, title, source, lines, i, lexVars, html, result,
                   span, formatted>>

\* lines 474-498: the head of _convert_body
BeginBody ==
    /\ pc = "parsed"
    /\ lines' = _strip_front_matter(body)
    /\ i' = 1
    /\ SetLexState([sections |-> <<>>, cur |-> None, in_code |-> FALSE,
                    code_lang |-> <<>>, buf_code |-> <<>>, preface |-> <<>>,
                    parabuf |-> <<>>])
    /\ pc' = "lex"
    /\ UNCHANGED <<ctorVars, scriptVars>>
    /\ UNCHANGED <<md_content, title, source, front_matter, body, image_counter,
                   html, result, span, formatted>>

\* lines 499-665: one iteration of the while loop
LexStep ==
    /\ pc = "lex"
    /\ i <= Len(lines)
    /\ SetLexState(LexLine(LexState, lines[i]))
    /\ i' = i + 1
    /\ UNCHANGED <<ctorVars, scriptVars>>
    /\ UNCHANGED <<md_content, title, source, pc, front_matter, body,
                   image_counter, lines, html, result, span, formatted>>

\* lines 667-672: the loop is over
EndLex ==
    /\ pc = "lex"
    /\ i > Len(lines)
    /\ SetLexState([flush_para_buffer(LexState)
                       EXCEPT !.sections = CloseSections(LexState)])
    /\ pc' = "group"
    /\ UNCHANGED <<ctorVars, scriptVars>>
    /\ UNCHANGED <<md_content, title, source, front_matter, body, image_counter,
                   lines, i, html, result, span, formatted>>

\* lines 675-678
Group ==
    /\ pc = "group"
    /\ sections' = [k \in 1..Len(sections) |->
                       [sections[k] EXCEPT
                           !.items = _group_list_and_table_items(@)]]
    /\ html' = <<>>
    /\ pc' = "convert"
    /\ UNCHANGED <<ctorVars, scriptVars>>
    /\ UNCHANGED <<md_content, title, source, front_matter, body, image_counter,
                   lines, i, cur, in_code, code_lang, buf_code, preface, parabuf,
                   result, span, formatted>>

\* lines 679-680: one iteration of the loop over the sections
ConvertSection ==
    /\ pc = "convert"
    /\ Len(html) < Len(sections)
    /\ LET sec == sections[Len(html) + 1]
       IN  /\ html' = Append(html, _convert_section(sec.level, sec.title, sec.items,
                                                    image_counter))
           /\ image_counter' = image_counter + CountImages(sec.items)
    /\ UNCHANGED <<ctorVars, scriptVars>>
    /\ UNCHANGED <<md_content, title, source, pc, front_matter, body, lines, i,
                   lexVars, result, span, formatted>>

\* lines 682 and 455: the body is joined and _generate_html is called
Generate ==
    /\ pc = "convert"
    /\ Len(html) = Len(sections)
    /\ IF GenerateRaises(md_title, md_date, SourceOrPermalink)
       THEN pc' = "raised" /\ UNCHANGED result
       ELSE /\ pc' = "done"
            /\ result' = _generate_html(md_title, md_date, md_tags, Flatten(html),
                                        SourceOrPermalink)
    /\ UNCHANGED <<ctorVars, scriptVars>>
    /\ UNCHANGED <<md_content, title, source, front_matter, body, image_counter,
                   lines, i, lexVars, html, span, formatted>>

\* _inline_format called on span
FormatSpan ==
    /\ pc = "inline"
    /\ formatted' = _inline_format(span)
    /\ pc' = "formatted"
    /\ UNCHANGED <<ctorVars, scriptVars>>
    /\ UNCHANGED <<md_content, title, source, front_matter, body, image_counter,
                   lines, i, lexVars, html, result, span>>

NextConvert ==
    \/ Parse
    \/ BeginBody
    \/ LexStep
    \/ EndLex
    \/ Group
    \/ ConvertSection
    \/ Generate

NextInline == FormatSpan

\* the state of the names of convert() before it runs
FreshCall ==
    /\ front_matter = <<>>
    /\ body = << <<>> >>
    /\ image_counter = 0
    /\ lines = <<>>
    /\ i = 1
    /\ sections = <<>>
    /\ cur = None
    /\ in_code = FALSE
    /\ code_lang = <<>>
    /\ buf_code = <<>>
    /\ preface = <<>>
    /\ parabuf = <<>>
    /\ html = <<>>
    /\ result = <<>>
    /\ formatted = <<>>
    /\ _parsers = <<>>
    /\ filepath = <<>>
    /\ parser_ = None
    /\ namespace = ParsersNames
    /\ NotImported

\* the state before convert() runs on a converter made with the default
\* style, or before _inline_format does
Fresh ==
    /\ FreshCall
    /\ style = "academic_gray"
    /\ styles = STYLES
    /\ style_config = styles[style]
    /\ error = None


\* the documents of at most n lines, each line taken from pool
Docs(pool, n) == UNION {[1..k -> pool] : k \in 1..n}

-----------------------------------------------------------------------------
(* Front matter: documents made of fence lines, key lines and text         *)

MaxFmLines == 4

FmPool ==
    { <<"-", "-", "-">>,
      <<" ", "-", "-", "-">>,
      <<"-", "-", "-", " ">>,
      <<"k", ":", " ", "v">>,
      <<"-", " ", "x">>,
      <<"x">>,
      <<>> }

InitFrontMatter ==
    /\ md_content \in Docs(FmPool, MaxFmLines)
    /\ title = <<>>
    /\ source = <<>>
    /\ span = <<>>
    /\ pc = "start"
    /\ Fresh

SpecFrontMatter == InitFrontMatter /\ [][NextConvert]_vars

\* the closing line of the front matter as the parser takes it: the first
\* line behind the first one that is "---" once trimmed; 0 when the document
\* has no front matter
TrimmedEnd ==
    IF /\ StartsWith(md_content[1], Fence)
       /\ Strip(md_content[1]) = Fence
       /\ \E n \in 2..Len(md_content) : Strip(md_content[n]) = Fence
    THEN CHOOSE n \in 2..Len(md_content) :
            /\ Strip(md_content[n]) = Fence
            /\ \A m \in 2..(n - 1) : Strip(md_content[m]) # Fence
    ELSE 0

\* the closing line when only a line that is exactly "---" counts
ExactEnd ==
    IF /\ md_content[1] = Fence
       /\ \E n \in 2..Len(md_content) : md_content[n] = Fence
    THEN CHOOSE n \in 2..Len(md_content) :
            /\ md_content[n] = Fence
            /\ \A m \in 2..(n - 1) : md_content[m] # Fence
    ELSE 0

\* the key a front-matter line sets: the trimmed text before its first ":"
KeyOf(line) == Strip(Take(Strip(line), Find(Strip(line), ":", 1) - 1))

\* the front matter holds keys of the lines 2..(e-1) only, and the key of
\* each of them that has a ":" and is no "-" item
KeysComeFrom(e) ==
    /\ \A key \in DOMAIN front_matter :
          \E n \in 2..(e - 1) :
             Contains(md_content[n], ":") /\ KeyOf(md_content[n]) = key
    /\ \A n \in 2..(e - 1) :
          (Contains(md_content[n], ":")
              /\ ~StartsWith(Strip(md_content[n]), <<"-">>))
          => KeyOf(md_content[n]) \in DOMAIN front_matter

\* C4, as claimed: the fences are the lines that are exactly "---".  When the
\* first line and a later line are exactly "---", the body is the lines after
\* the first such later line and the front matter comes from the lines
\* between; otherwise the front matter is empty and the body is the input.
C4_ExactFences ==
    pc # "start" =>
        IF ExactEnd # 0
        THEN body = JoinLines(Drop(md_content, ExactEnd)) /\ KeysComeFrom(ExactEnd)
        ELSE front_matter = <<>> /\ body = md_content

\* C4, amended: the fences are taken after trimming.  When the document
\* starts with "---", its first line trimmed is "---" and a later line
\* trimmed is "---", the body is the lines after the first such later line
\* and the front matter comes from the lines between; otherwise the front
\* matter is empty and the body is the whole input.  A lookup of a key the
\* front matter lacks gives the default.  (The parser has no raising path:
\* Parse is enabled in every start state.)
C4_TrimmedFences ==
    pc # "start" =>
        /\ IF TrimmedEnd # 0
           THEN /\ body = JoinLines(Drop(md_content, TrimmedEnd))
                /\ KeysComeFrom(TrimmedEnd)
           ELSE front_matter = <<>> /\ body = md_content
        /\ \A key \in {<<"k">>, <<"title">>, <<"permalink">>} :
              key \notin DOMAIN front_matter
              => get_front_matter(front_matter, key, Str(<<"d">>)) = Str(<<"d">>)

\* C4's case: front matter closed by a line that is "---" only once trimmed,
\* with a key parsed and a body behind it
C4_Witness ==
    /\ pc = "parsed"
    /\ TrimmedEnd # 0
    /\ md_content[TrimmedEnd] # Fence
    /\ <<"k">> \in DOMAIN front_matter
    /\ body = <<<<"x">>>>

\* C5: the lexer reads every line of the body: the lines it is given are the
\* lines of the parser's body, none dropped.
C5_BodyFullyLexed == pc \in {"lex", "group", "convert", "done"} => lines = body

-----------------------------------------------------------------------------
(* Title, permalink and the arguments of convert()                          *)

MaxMetaLines == 4

MetaPool ==
    { <<"-", "-", "-">>,
      <<"title", ":", " ", "T">>,
      <<"title", ":">>,
      <<"permalink", ":", " ", "P">>,
      <<"-", " ", "a">>,
      <<"x">> }

InitMeta ==
    /\ md_content \in Docs(MetaPool, MaxMetaLines)
    /\ title \in {<<>>, <<"A">>}
    /\ source \in {<<>>, <<"S">>}
    /\ span = <<>>
    /\ pc = "start"
    /\ Fresh

SpecMeta == InitMeta /\ [][NextConvert]_vars

\* the tokens of r between the first token open and the next token close
Between(r, open, close) ==
    LET a == Find(r, open, 1)
    IN  IF a = 0 THEN <<>> ELSE SubSeq(r, a + 1, Find(r, close, a + 1) - 1)

\* the text the document header shows (nothing when there is no header)
HeaderText(r) == Between(r, "<td:header>", "</td>")

\* the text the source footer shows (nothing when there is no footer)
FooterText(r) ==
    LET a == Find(r, "<td:source>", 1)
    IN  IF a = 0 THEN <<>> ELSE Between(Drop(r, a), "\">", "</a>")

HasScalar(key) == key \in DOMAIN front_matter /\ front_matter[key].kind = "str"

\* C2: convert() never raises, whatever the document: no run ends in an
\* exception.
C2_NeverRaises == pc # "raised"

\* C3: the arguments are fallbacks only.  The header shows the front-matter
\* title when the front matter has one and the title argument otherwise; the
\* footer shows the front-matter permalink when the front matter has one and
\* the source argument only when it has none.
C3_ArgumentsAreFallbacks ==
    pc = "done" =>
        /\ HasScalar(<<"title">>)
           => HeaderText(result) = _escape_html(front_matter[<<"title">>].v)
        /\ <<"title">> \notin DOMAIN front_matter
           => HeaderText(result) = _escape_html(title)
        /\ HasScalar(<<"permalink">>)
           => FooterText(result) = _escape_html(front_matter[<<"permalink">>].v)
        /\ <<"permalink">> \notin DOMAIN front_matter
           => FooterText(result) = _escape_html(source)

-----------------------------------------------------------------------------
(* Sections and headings                                                    *)

MaxSecLines == 4

SecPool ==
    { <<"#", " ", "a">>,
      <<"#", "#", " ", "b">>,
      <<"#", "#", "#", " ", "c">>,
      <<"#", "#", "#", "#", " ", "d">>,
      <<Tick, Tick, Tick>>,
      <<" ", "-", "-", "-">>,
      <<"x">> }

InitSections ==
    /\ md_content \in Docs(SecPool, MaxSecLines)
    /\ title = <<>>
    /\ source = <<>>
    /\ span = <<>>
    /\ pc = "start"
    /\ Fresh

SpecSections == InitSections /\ [][NextConvert]_vars

\* the number of code fence lines of ls before line n
FencesBefore(ls, n) == Cardinality({m \in 1..(n - 1) : IsFenceLine(ls[m])})

\* line n of ls is outside every code fence and is no fence itself
OutsideFence(ls, n) == FencesBefore(ls, n) % 2 = 0 /\ ~IsFenceLine(ls[n])

\* line n of ls is an H2 or H3 heading line outside a code fence
IsSectionHeading(ls, n) ==
    /\ OutsideFence(ls, n)
    /\ AtxMatch(ls[n]).ok
    /\ AtxMatch(ls[n]).level \in {2, 3}

SectionHeadings(ls) == {n \in 1..Len(ls) : IsSectionHeading(ls, n)}

\* line n of ls makes the lexer emit a token: a non-blank line outside a
\* fence, or the fence line that closes a code block
EmitsToken(ls, n) ==
    \/ OutsideFence(ls, n) /\ Strip(ls[n]) # <<>>
    \/ IsFenceLine(ls[n]) /\ FencesBefore(ls, n) % 2 = 1

\* a token is emitted before the first H2/H3 heading of ls
TokenBeforeFirstHeading(ls) ==
    \E m \in 1..Len(ls) :
        /\ EmitsToken(ls, m)
        /\ \A n \in SectionHeadings(ls) : m < n

IsHeaded(sec) == sec.level # 0

\* secs is the partition the H2/H3 headings of ls call for
PartitionOf(ls, secs) ==
    LET hs == SectionHeadings(ls)
        headed == SelectSeq(secs, IsHeaded)
    IN  /\ Len(headed) = Cardinality(hs)
        /\ \A n \in hs :
               LET k == Cardinality({m \in hs : m <= n})
               IN  /\ headed[k].level = AtxMatch(ls[n]).level
                   /\ headed[k].title = AtxMatch(ls[n]).text
        /\ \A k \in 1..Len(secs) :
               secs[k].level = 0 => k = 1 /\ secs[k].title = <<>>
        /\ (secs # <<>> /\ secs[1].level = 0) <=> TokenBeforeFirstHeading(ls)

\* C6: after lexing any body the section list holds, in document order, one
\* section per H2/H3 heading line of the body outside a code fence, with the
\* level and title of that heading, preceded by one level-0 section with an
\* empty title if and only if a token was emitted before the first H2/H3.
C6_SectionPerHeading == pc = "group" => PartitionOf(body, sections)

\* the number of H1 and H4-H6 heading tokens of items
HeadingItems(items) ==
    Cardinality({n \in 1..Len(items) : items[n].type = "heading"})

\* the number of heading elements of the HTML h
HeadingElements(h) ==
    Cardinality({n \in 1..Len(h) : h[n] \in {"<h1>", "<h4>", "<h5>", "<h6>"}})

\* C7: every heading token of level 1, 4, 5 or 6 among a section's items is
\* rendered as a heading element in that section's HTML, in a level-0
\* preface section as well as in an H2/H3 section.
C7_HeadingsRendered ==
    pc = "convert" =>
        \A k \in 1..Len(html) :
            HeadingElements(html[k]) = HeadingItems(sections[k].items)

-----------------------------------------------------------------------------
(* Lists                                                                    *)

MaxListLines == 4

ListPool ==
    { <<"-", " ", "a">>,
      <<" ", " ", "-", " ", "b">>,
      <<" ", " ", " ", " ", "-", " ", "c">>,
      <<"1", ".", " ", "d">>,
      <<"x">> }

InitLists ==
    /\ md_content \in Docs(ListPool, MaxListLines)
    /\ title = <<>>
    /\ source = <<>>
    /\ span = <<>>
    /\ pc = "start"
    /\ Fresh

SpecLists == InitLists /\ [][NextConvert]_vars

IsListItem(item) == item.type = "list_item"

\* the texts of the list item tokens of items, in order
ListItemTexts(items) ==
    LET run == SelectSeq(items, IsListItem)
    IN  [n \in 1..Len(run) |-> run[n].text]

\* the texts of a nested list structure, each node before its children
RECURSIVE NodeTexts(_)
NodeTexts(nodes) ==
    Flatten([n \in 1..Len(nodes) |->
                <<nodes[n].text>> \o NodeTexts(nodes[n].nested)])

\* the texts of the list nodes of items, in order
ListNodeTexts(items) ==
    Flatten([n \in 1..Len(items) |->
                IF items[n].type = "list" THEN NodeTexts(items[n].nested)
                ELSE <<>>])

\* C10: grouping conserves list items: each list item token of a section
\* appears exactly once, in order, in the nested structures of the list
\* nodes the section has after grouping, whatever the indentations are.
C10_ItemsConserved ==
    [][pc = "group" /\ pc' = "convert"
       => \A k \in 1..Len(sections) :
              ListNodeTexts(sections'[k].items) = ListItemTexts(sections[k].items)]_vars

-----------------------------------------------------------------------------
(* Inline spans                                                             *)

MaxPieces == 5

InlinePieces ==
    { <<"*", "*">>,
      <<"*">>,
      <<"x">>,
      <<Tick>>,
      <<"[">>,
      <<"]">>,
      <<"(", "u", ")">>,
      <<"{color:", "#f00", "}">> }

\* the spans made of at most n pieces
Spans(n) == {Flatten(ps) : ps \in Docs(InlinePieces, n)}

InitInline ==
    /\ md_content = << <<>> >>
    /\ title = <<>>
    /\ source = <<>>
    /\ span \in Spans(MaxPieces)
    /\ pc = "inline"
    /\ Fresh

SpecInline == InitInline /\ [][NextInline]_vars

\* the element an inline tag token opens, or "" when it opens none
Opens(tok) ==
    CASE tok \in {"<strong>", "<strong style=\"color:"} -> "strong"
      [] tok = "<em>" -> "em"
      [] tok = "<code>" -> "code"
      [] tok = "<a href=\"" -> "a"
      [] tok = "<span style=\"color:" -> "span"
      [] OTHER -> ""

\* the element an inline tag token closes, or "" when it closes none
Closes(tok) ==
    CASE tok = "</strong>" -> "strong"
      [] tok = "</em>" -> "em"
      [] tok = "</code>" -> "code"
      [] tok = "</a>" -> "a"
      [] tok = "</span>" -> "span"
      [] OTHER -> ""

\* the tags of t from index n on are balanced and properly nested, stack
\* being the elements that are open
RECURSIVE WellNested(_, _, _)
WellNested(t, n, stack) ==
    IF n > Len(t) THEN stack = <<>>
    ELSE IF Opens(t[n]) # "" THEN WellNested(t, n + 1, <<Opens(t[n])>> \o stack)
    ELSE IF Closes(t[n]) # ""
    THEN /\ stack # <<>>
         /\ Head(stack) = Closes(t[n])
         /\ WellNested(t, n + 1, Tail(stack))
    ELSE WellNested(t, n + 1, stack)

\* C8: for every span the inline tags _inline_format introduces are
\* balanced and properly nested in its output.
C8_InlineTagsNested == pc = "formatted" => WellNested(formatted, 1, <<>>)

ColorMarker == <<"{color:", "#f00", "}">>

PlainTexts == {<<"x">>, <<"x", "x">>}

\* C9: the span of a bold text followed by a color marker is rendered as a
\* bold element carrying the color, the span of a bracketed text followed by
\* a color marker as a span element carrying the color, and in both cases
\* the marker does not remain in the output.
C9_ColorExtensions ==
    pc = "formatted" =>
        \A text \in PlainTexts :
            /\ span = <<"*", "*">> \o text \o <<"*", "*">> \o ColorMarker
               => formatted = <<"<strong style=\"color:", "#f00", ";\">">> \o text
                              \o <<"</strong>">>
            /\ span = <<"[">> \o text \o <<"]">> \o ColorMarker
               => formatted = <<"<span style=\"color:", "#f00", ";\">">> \o text
                              \o <<"</span>">>

-----------------------------------------------------------------------------
(* Escaping of user text                                                    *)

MaxEscLines == 3

EscPool ==
    { <<"<">>,
      <<"#", " ", "&">>,
      <<"#", "#", " ", ">">>,
      <<"-", " ", "<">>,
      <<"|", "<", "|">>,
      <<">", " ", "&">>,
      <<Tick, Tick, Tick>>,
      <<"!", "[", "<", "]", "(", "<", ")">>,
      <<"-", "-", "-">>,
      <<"title", ":", " ", "<">> }

InitEscape ==
    /\ md_content \in Docs(EscPool, MaxEscLines)
    /\ title \in {<<>>, <<"<">>}
    /\ source \in {<<>>, <<"&">>}
    /\ span = <<>>
    /\ pc = "start"
    /\ Fresh

SpecEscape == InitEscape /\ [][NextConvert]_vars

\* the characters of user text that have to be escaped; the tags of the
\* renderer are tokens of their own and never one of these
RawChars == {"<", ">", "&"}

\* C1: every "<", ">" and "&" of user content appears in the returned HTML
\* in escaped form only, by whatever path the text reaches the output.
C1_UserTextEscaped ==
    pc = "done" => \A n \in 1..Len(result) : result[n] \notin RawChars

-----------------------------------------------------------------------------
(* Ordered and unordered sub-lists                                          *)

MaxNestLines == 3

NestPool ==
    { <<"-", " ", "a">>,
      <<"1", ".", " ", "b">>,
      <<" ", " ", "-", " ", "c">>,
      <<" ", " ", "1", ".", " ", "d">>,
      <<" ", " ", " ", " ", "2", ".", " ", "e">>,
      <<"x">> }

InitNested ==
    /\ md_content \in Docs(NestPool, MaxNestLines)
    /\ title = <<>>
    /\ source = <<>>
    /\ span = <<>>
    /\ pc = "start"
    /\ Fresh

SpecNested == InitNested /\ [][NextConvert]_vars

\* the marker of the list line whose item text is t is numeric (the texts of
\* the pool's list lines differ)
MarkerIsNumeric(t) ==
    \E n \in 1..Len(lines) :
        /\ ListMatch(lines[n]).ok
        /\ ListMatch(lines[n]).item_text = t
        /\ ListMatch(lines[n]).is_ordered

\* every sub-list below nodes carries the ordered-kind of its first item
RECURSIVE SubListFlagsRight(_)
SubListFlagsRight(nodes) ==
    \A n \in 1..Len(nodes) :
        nodes[n].nested # <<>>
        => /\ nodes[n].nested_ordered = MarkerIsNumeric(nodes[n].nested[1].text)
           /\ SubListFlagsRight(nodes[n].nested)

\* C11: at every nesting depth the ordered flag of a list is the kind of its
\* items' marker: the flag of a list node and of each nested sub-list is
\* TRUE iff the sub-list's items have a numeric marker.
C11_OrderedIffNumeric ==
    pc = "convert" =>
        \A k \in 1..Len(sections) :
            \A n \in 1..Len(sections[k].items) :
                LET item == sections[k].items[n]
                IN  item.type = "list" /\ item.nested # <<>>
                    => /\ item.ordered = MarkerIsNumeric(item.nested[1].text)
                       /\ SubListFlagsRight(item.nested)

-----------------------------------------------------------------------------
(* Tables                                                                   *)

MaxTableLines == 4

TablePool ==
    { <<"|", "A", "|">>,
      <<"|", "1", "|">>,
      <<"|", "-", "-", "-", "|">>,
      <<"x">> }

InitTables ==
    /\ md_content \in Docs(TablePool, MaxTableLines)
    /\ title = <<>>
    /\ source = <<>>
    /\ span = <<>>
    /\ pc = "start"
    /\ Fresh

SpecTables == InitTables /\ [][NextConvert]_vars

IsTableToken(item) == item.type \in {"table_row", "table_separator"}

\* the index of the first separator of a run of table tokens, or 0
FirstSeparator(run) ==
    IF \E n \in 1..Len(run) : run[n].type = "table_separator"
    THEN CHOOSE n \in 1..Len(run) :
            /\ run[n].type = "table_separator"
            /\ \A m \in 1..(n - 1) : run[m].type # "table_separator"
    ELSE 0

\* the rows of a run from index n on, a row being a header row when it
\* stands before the first separator or, in a run without separator, when
\* it is the first row
RECURSIVE RowsByRule(_, _)
RowsByRule(run, n) ==
    IF n > Len(run) THEN <<>>
    ELSE IF run[n].type = "table_row"
    THEN <<[cells |-> run[n].cells,
            is_header |-> IF FirstSeparator(run) # 0 THEN n < FirstSeparator(run)
                          ELSE n = 1]>>
         \o RowsByRule(run, n + 1)
    ELSE RowsByRule(run, n + 1)

\* the last index of the maximal run of table tokens that starts at n
RECURSIVE RunLast(_, _)
RunLast(items, n) ==
    IF n < Len(items) /\ IsTableToken(items[n + 1]) THEN RunLast(items, n + 1)
    ELSE n

\* the row lists of the tables the maximal runs of items call for
RECURSIVE TablesByRule(_, _)
TablesByRule(items, n) ==
    IF n > Len(items) THEN <<>>
    ELSE IF IsTableToken(items[n])
    THEN LET e == RunLast(items, n)
             rows == RowsByRule(SubSeq(items, n, e), 1)
         IN  (IF rows # <<>> THEN <<rows>> ELSE <<>>) \o TablesByRule(items, e + 1)
    ELSE TablesByRule(items, n + 1)

IsTable(item) == item.type = "table"

\* the row lists of the table nodes of items
TablesOf(items) ==
    LET ts == SelectSeq(items, IsTable)
    IN  [n \in 1..Len(ts) |-> ts[n].rows]

\* C12: grouping turns each maximal run of table row and separator tokens
\* into one table node whose rows before the first separator are header
\* rows (the first row only, when the run has no separator) and whose later
\* rows are body rows.
C12_HeaderRowsBeforeSeparator ==
    [][pc = "group" /\ pc' = "convert"
       => \A k \in 1..Len(sections) :
              TablesOf(sections'[k].items) = TablesByRule(sections[k].items, 1)]_vars

-----------------------------------------------------------------------------
(* Cards                                                                    *)

\* the rendering of one content block by the renderer of its kind
Rendering(item, is_reference) ==
    CASE item.type = "heading" ->
            _convert_heading(item.text, item.level, is_reference)
      [] item.type = "paragraph" -> _convert_paragraph(item.text, is_reference)
      [] item.type = "code" -> format_code_block(item.code, item.lang)
      [] item.type = "image" -> process_image(item.src, item.alt, item.title, 0)
      [] item.type = "list" -> _convert_list(item.nested, item.ordered, is_reference)
      [] item.type = "table" ->
            _convert_table(item.rows, item.alignments, is_reference)
      [] item.type = "horizontal_rule" -> _convert_horizontal_rule
      [] item.type = "blockquote" -> _convert_blockquote(item.text, is_reference)

\* the renderings of the content blocks of a section, in order
Renderings(sec) ==
    Flatten([n \in 1..Len(sec.items) |->
                Rendering(sec.items[n], IsReference(sec.title))])

\* html is one card table around inner
IsCardAround(h, inner) ==
    \E td \in {"<td:card>", "<td:card:ref>"} :
        h = <<"<table:card>", "<tr>", td>> \o inner \o <<"</td>", "</tr>", "</table>">>

\* C13: a section of level 2 or 3 with content renders its heading and then
\* one card around the renderings of all its content blocks in order; one
\* without content renders its heading alone; the preface (level 0) renders
\* the renderings of its content blocks with no card and no heading.
C13_CardWrapping ==
    pc = "convert" =>
        \A k \in 1..Len(html) :
            LET sec == sections[k]
                heading == _convert_heading(sec.title, sec.level, FALSE)
            IN  /\ sec.level \in {2, 3} /\ sec.items # <<>> =>
                     /\ Len(html[k]) >= Len(heading)
                     /\ Take(html[k], Len(heading)) = heading
                     /\ IsCardAround(Drop(html[k], Len(heading)), Renderings(sec))
                /\ sec.level \in {2, 3} /\ sec.items = <<>> => html[k] = heading
                /\ sec.level = 0 => html[k] = Renderings(sec)

-----------------------------------------------------------------------------
(* Reference sections                                                       *)

MaxRefLines == 3

RefPool ==
    { <<"#", "#", " ", "References">>,
      <<"#", "#", "#", " ", "x", " ", "cankao">>,
      <<"#", "#", " ", "Bibliography", " ", "b">>,
      <<"#", "#", " ", "b">>,
      <<"x">>,
      <<"-", " ", "a">>,
      <<">", " ", "q">> }

InitReferences ==
    /\ md_content \in Docs(RefPool, MaxRefLines)
    /\ title = <<>>
    /\ source = <<>>
    /\ span = <<>>
    /\ pc = "start"
    /\ Fresh

SpecReferences == InitReferences /\ [][NextConvert]_vars

\* the keywords of line 790 in the spellings a title of RefPool can hold
KeywordSpellings ==
    { "cankaowenxian", "cankao", "references", "References", "bibliography",
      "Bibliography" }

TitleHasKeyword(title_) == \E n \in 1..Len(title_) : title_[n] \in KeywordSpellings

\* the opening tags that carry the reference style, and their normal forms
ReferenceTags == {"<p:ref>", "<ul:ref>", "<ol:ref>", "<td:card:ref>"}

NormalTags == {"<p>", "<ul>", "<ol>", "<td:card>"}

HasTagIn(h, tags) == \E n \in 1..Len(h) : h[n] \in tags

\* C14: a section is rendered with the reference style (on its paragraphs,
\* its lists and its card cell) exactly when its title holds one of the
\* keywords, whatever the case of the letters; a section with an empty title
\* never is; and a paragraph rendered with the reference style differs from
\* the same paragraph rendered without.
C14_ReferenceStyling ==
    pc = "convert" =>
        \A k \in 1..Len(html) :
            LET sec == sections[k]
            IN  /\ TitleHasKeyword(sec.title) => ~HasTagIn(html[k], NormalTags)
                /\ ~TitleHasKeyword(sec.title) => ~HasTagIn(html[k], ReferenceTags)
                /\ sec.title = <<>> => ~HasTagIn(html[k], ReferenceTags)
                /\ \A n \in 1..Len(sec.items) :
                       sec.items[n].type = "paragraph" =>
                           _convert_paragraph(sec.items[n].text, TRUE)
                               # _convert_paragraph(sec.items[n].text, FALSE)

\* a document with a section titled References whose paragraph and card are
\* rendered with the reference style, after a section rendered without
C14_Witness ==
    /\ pc = "convert"
    /\ \E k \in 1..Len(html) :
           /\ \E n \in 1..Len(sections[k].title) : sections[k].title[n] = "References"
           /\ HasTagIn(html[k], {"<p:ref>"})
           /\ HasTagIn(html[k], {"<td:card:ref>"})
    /\ \E k \in 1..Len(html) : HasTagIn(html[k], {"<p>"})

-----------------------------------------------------------------------------
(* Structural balance                                                       *)

MaxBalLines == 3

BalPool ==
    { <<"#", "#", " ", "b">>,
      <<"-", " ", "a">>,
      <<" ", " ", "1", ".", " ", "c">>,
      <<"|", "A", "|">>,
      <<">", " ", "q">>,
      <<"*", "*", "*">>,
      <<Tick, Tick, Tick>>,
      <<"!", "[", "a", "]", "(", "u", ")">>,
      <<"x">> }

\* a front matter that gives the document a date and a tags value
BalFrontMatter ==
    << <<"-", "-", "-">>,
       <<"date", ":", " ", "D">>,
       <<"tags", ":", " ", "[", "a", ",", " ", "b", "]">>,
       <<"-", "-", "-">> >>

InitBalance ==
    /\ \E fm \in {<<>>, BalFrontMatter} :
           /\ md_content \in {fm \o d : d \in Docs(BalPool, MaxBalLines)}
           /\ source = IF fm = <<>> THEN <<>> ELSE <<"S">>
    /\ title \in {<<>>, <<"T">>}
    /\ span = <<>>
    /\ pc = "start"
    /\ Fresh

SpecBalance == InitBalance /\ [][NextConvert]_vars

TableTags ==
    { "<table:card>", "<table:code>", "<table:data>", "<table:h1>", "<table:h2>",
      "<table:h3>", "<table:header>", "<table:hr>", "<table:img>", "<table:meta>",
      "<table:outer>", "<table:quote>", "<table:source>" }

CellTags ==
    { "<td:card:ref>", "<td:card>", "<td:center:even>", "<td:center:odd>",
      "<td:center>", "<td:code>", "<td:h2>", "<td:h3>", "<td:header>", "<td:hr>",
      "<td:left:even>", "<td:left:odd>", "<td:meta>", "<td:outer>", "<td:quote>",
      "<td:right:even>", "<td:right:odd>", "<td:source>" }

\* the structural element a tag of the renderer opens, or "" when none
OpensBlock(tok) ==
    CASE tok \in TableTags -> "table"
      [] tok = "<tr>" -> "tr"
      [] tok \in CellTags -> "td"
      [] tok \in {"<ul>", "<ul:ref>"} -> "ul"
      [] tok \in {"<ol>", "<ol:ref>"} -> "ol"
      [] tok = "<li>" -> "li"
      [] OTHER -> ""

\* the structural element a tag of the renderer closes, or "" when none
ClosesBlock(tok) ==
    CASE tok = "</table>" -> "table"
      [] tok = "</tr>" -> "tr"
      [] tok = "</td>" -> "td"
      [] tok = "</ul>" -> "ul"
      [] tok = "</ol>" -> "ol"
      [] tok = "</li>" -> "li"
      [] OTHER -> ""

\* the structural tags of t from index n on are balanced and properly
\* nested, stack being the elements that are open
RECURSIVE BlocksNested(_, _, _)
BlocksNested(t, n, stack) ==
    IF n > Len(t) THEN stack = <<>>
    ELSE IF OpensBlock(t[n]) # ""
    THEN BlocksNested(t, n + 1, <<OpensBlock(t[n])>> \o stack)
    ELSE IF ClosesBlock(t[n]) # ""
    THEN /\ stack # <<>>
         /\ Head(stack) = ClosesBlock(t[n])
         /\ BlocksNested(t, n + 1, Tail(stack))
    ELSE BlocksNested(t, n + 1, stack)

\* C15: in the html convert() returns, every table, tr, td, ul, ol and li
\* tag the renderer opens is closed, in properly nested order.
C15_StructuralBalance == pc = "done" => BlocksNested(result, 1, <<>>)

\* a returned document with header, meta line, card, nested list and footer
C15_Witness ==
    /\ pc = "done"
    /\ \A tag \in {"<table:header>", "<table:meta>", "<table:card>",
                   "<table:source>", "<li>"} :
           \E n \in 1..Len(result) : result[n] = tag
    /\ \E n \in 1..Len(result) :
           /\ OpensBlock(result[n]) \in {"ul", "ol"}
           /\ Cardinality({m \in 1..n : OpensBlock(result[m]) = "li"})
                  > Cardinality({m \in 1..n : ClosesBlock(result[m]) = "li"})

-----------------------------------------------------------------------------
(* Styles                                                                   *)

MaxStyleLines == 2

StylePool ==
    { <<"#", "#", " ", "b">>,
      <<"#", "#", "#", " ", "c">>,
      <<"#", " ", "a">>,
      <<"-", " ", "a">>,
      <<"|", "A", "|">>,
      <<">", " ", "q">>,
      <<Tick, Tick, Tick>>,
      <<Tick, "c", Tick, " ", "[", "l", "]", "(", "u", ")">>,
      <<"x">> }

\* the style arguments: the keys of the registry and other names
StyleArgs ==
    {"academic_gray", "festival", "tech", "announcement", "Festival", "unknown", ""}

InitStyles ==
    /\ md_content \in Docs(StylePool, MaxStyleLines)
    /\ title = <<"T">>
    /\ source = <<"S">>
    /\ span = <<>>
    /\ style \in StyleArgs
    /\ styles = STYLES
    /\ style_config = None
    /\ error = None
    /\ pc = "new"
    /\ FreshCall

NextStyles ==
    \/ Construct
    \/ Parse
    \/ BeginBody
    \/ LexStep
    \/ EndLex
    \/ Group
    \/ ConvertSection
    \/ Generate

SpecStyles == InitStyles /\ [][NextStyles]_vars

ColorFields ==
    { "header_bg_color", "header_text_color", "card_bg_color", "card_border_color",
      "card_text_color", "h2_h3_card_bg_color", "h2_h3_card_border_color",
      "h2_title_line_color", "h2_title_text_color", "h3_title_bg_color",
      "h3_title_border_color", "h3_title_text_color", "code_bg_color",
      "code_border_color", "code_text_color", "inline_code_bg_color",
      "inline_code_text_color", "paragraph_color", "blockquote_bg_color",
      "blockquote_border_color", "blockquote_text_color", "table_header_bg_color",
      "table_border_color", "link_color", "meta_text_color", "source_text_color" }

SizeFields ==
    { "header_font_size", "h2_title_font_size", "h3_title_font_size",
      "paragraph_font_size", "paragraph_line_height", "meta_font_size",
      "source_font_size" }

\* a and b are the same tokens in the same order and carry, at the same
\* places, literals of the same color and size fields
SameButLiterals(a, b) ==
    /\ Len(a) = Len(b)
    /\ \A n \in 1..Len(a) :
           /\ a[n].tok = b[n].tok
           /\ Len(a[n].literals) = Len(b[n].literals)
           /\ \A k \in 1..Len(a[n].literals) :
                  /\ a[n].literals[k].field = b[n].literals[k].field
                  /\ a[n].literals[k].form = b[n].literals[k].form
                  /\ a[n].literals[k].field \in ColorFields \cup SizeFields

C17_UnknownStyleRejected ==
    /\ pc = "value_error" =>
           /\ style \notin {"academic_gray", "festival", "tech", "announcement"}
           /\ error # None
           /\ error.type = "ValueError"
           /\ \A key \in DOMAIN STYLES :
                  \E n \in 1..Len(error.message) : error.message[n] = key
           /\ style_config = None
    /\ pc \notin {"new", "value_error"} =>
           /\ style \in {"academic_gray", "festival", "tech", "announcement"}
           /\ style_config = STYLES[style]
           /\ error = None

\* the constructor has rejected the style name "unknown"
C17_Witness ==
    /\ pc = "value_error"
    /\ style = "unknown"
    /\ error # None

-----------------------------------------------------------------------------
(* Successive calls of convert() on one converter                           *)

MaxCallLines == 2

CallPool ==
    { <<"!", "[", "a", "]", "(", "u", ")">>,
      <<"#", "#", " ", "b">>,
      <<Tick, Tick, Tick>>,
      <<"-", " ", "a">>,
      <<"x">> }

InitCalls ==
    /\ md_content \in Docs(CallPool, MaxCallLines)
    /\ title \in {<<>>, <<"T">>}
    /\ source = <<>>
    /\ span = <<>>
    /\ pc = "start"
    /\ Fresh

\* convert() is called again on the same converter, after it has returned
\* or raised
CallAgain ==
    /\ pc \in {"done", "raised"}
    /\ md_content' \in Docs(CallPool, MaxCallLines)
    /\ title' \in {<<>>, <<"T">>}
    /\ pc' = "start"
    /\ UNCHANGED <<ctorVars, scriptVars>>
    /\ UNCHANGED <<source, front_matter, body, image_counter, lines, i, lexVars,
                   html, result, span, formatted>>

NextCalls ==
    \/ Parse
    \/ BeginBody
    \/ LexStep
    \/ EndLex
    \/ Group
    \/ ConvertSection
    \/ Generate
    \/ CallAgain

SpecCalls == InitCalls /\ [][NextCalls]_vars

\* lines 482-498: the names of _convert_body when its loop begins
InitialLexState ==
    [sections |-> <<>>, cur |-> None, in_code |-> FALSE, code_lang |-> <<>>,
     buf_code |-> <<>>, preface |-> <<>>, parabuf |-> <<>>]

\* lines 499-665: the loop of _convert_body over the lines from index n on
RECURSIVE LexAll(_, _, _)
LexAll(s, ls, n) ==
    IF n > Len(ls) THEN s ELSE LexAll(LexLine(s, ls[n]), ls, n + 1)

\* lines 679-682: the sections from index k on, converted and joined,
\* counter being the image counter when section k begins
RECURSIVE ConvertSections(_, _, _)
ConvertSections(secs, k, counter) ==
    IF k > Len(secs) THEN <<>>
    ELSE _convert_section(secs[k].level, secs[k].title, secs[k].items, counter)
         \o ConvertSections(secs, k + 1, counter + CountImages(secs[k].items))

\* lines 427-455: the value convert(md, title_, source_) returns on a
\* converter whose convert() was never called
ConvertFresh(md, title_, source_) ==
    LET parser == _parse_front_matter(md)
        fm == parser.front_matter
        closed == CloseSections(LexAll(InitialLexState,
                                       _strip_front_matter(parser.body), 1))
        grouped == [k \in 1..Len(closed) |->
                       [closed[k] EXCEPT !.items = _group_list_and_table_items(@)]]
        tags == get_front_matter(fm, <<"tags">>, List(<<>>))
    IN  _generate_html(get_front_matter(fm, <<"title">>, Str(title_)),
                       get_front_matter(fm, <<"date">>, Str(<<>>)),
                       IF tags.kind = "str" THEN List(<<tags.v>>) ELSE tags,
                       ConvertSections(grouped, 1, 0),
                       IF source_ # <<>> THEN Str(source_)
                       ELSE get_front_matter(fm, <<"permalink">>, Str(<<>>)))

\* the lines of ls that the lexer turns into an Image token
ImageLines(ls) == {n \in 1..Len(ls) : OutsideFence(ls, n) /\ ImageMatch(ls[n]).ok}

\* the number of image items among the items of the sections before
\* section k and the first n items of section k
ImagesUpTo(k, n) ==
    LET Sum[j \in 0..(k - 1)] ==
            IF j = 0 THEN 0 ELSE Sum[j - 1] + CountImages(sections[j].items)
    IN  Sum[k - 1] + CountImages(SubSeq(sections[k].items, 1, n))

\* C18: a call of convert() does not depend on the calls made before it on
\* the same converter: it returns what a first call with the same arguments
\* returns; the image counter is 0 once the call has begun, numbers the
\* images 1..n in document order, and is the number of Image tokens of the
\* document when the call returns; the preset of the converter stays the
\* preset of the registry.
C18_CallsIndependent ==
    [][/\ pc' = "parsed" => image_counter' = 0
       /\ pc' = "done" =>
              /\ result' = ConvertFresh(md_content', title', source')
              /\ image_counter' = Cardinality(ImageLines(lines'))
       /\ pc = "convert" /\ pc' = "convert" =>
              LET k == Len(html')
              IN  \A n \in 1..Len(sections[k].items) :
                      sections[k].items[n].type = "image" =>
                          ImageNumber(sections[k].items, n, image_counter)
                              = ImagesUpTo(k, n)
       /\ style_config' = STYLES[style]
      ]_vars

\* a call on a document with one image has begun and the counter is 0,
\* after a call that returned a document with two images
C18_Witness ==
    /\ pc = "parsed"
    /\ image_counter = 0
    /\ Cardinality({n \in 1..Len(result) : result[n] = "<table:img>"}) = 2
    /\ Cardinality({n \in 1..Len(md_content) : ImageMatch(md_content[n]).ok}) = 1

-----------------------------------------------------------------------------
(* Code blocks                                                              *)

MaxCodeLines == 3

CodePool ==
    { <<"a">>,
      <<" ", " ", "a", " ", " ", " ", "<">>,
      <<" ", " ", " ", " ", " ", " ", " ", "b">>,
      <<" ", " ", " ", " ", "c", " ", " ", "d">>,
      <<" ", " ", " ">>,
      <<>> }

\* a document that is one fenced code block
InitCode ==
    /\ md_content \in {<<<<Tick, Tick, Tick>>>> \o d \o <<<<Tick, Tick, Tick>>>> :
                          d \in Docs(CodePool, MaxCodeLines)}
    /\ title = <<>>
    /\ source = <<>>
    /\ span = <<>>
    /\ pc = "start"
    /\ Fresh

SpecCode == InitCode /\ [][NextConvert]_vars

NonBlankLines(code) == {n \in 1..Len(code) : Strip(code[n]) # <<>>}

\* the lines of code without its trailing blank lines
WithoutTrailingBlank(code) ==
    SubSeq(code, 1, CHOOSE n \in NonBlankLines(code) :
                        \A m \in NonBlankLines(code) : m <= n)

\* the least number of leading spaces of a non-blank line of code
LeastIndent(code) ==
    CHOOSE k \in {CountLeading(code[n], {" "}) : n \in NonBlankLines(code)} :
        \A n \in NonBlankLines(code) : k <= CountLeading(code[n], {" "})

\* the spaces of t replaced two by two, from the left, by two &nbsp;
RECURSIVE SpacePairs(_)
SpacePairs(t) ==
    IF t = <<>> THEN <<>>
    ELSE IF Len(t) >= 2 /\ t[1] = " " /\ t[2] = " "
    THEN <<"&nbsp;", "&nbsp;">> \o SpacePairs(Drop(t, 2))
    ELSE <<t[1]>> \o SpacePairs(Tail(t))

\* every space of a run of two or more spaces of t replaced by &nbsp;
SpaceRuns(t) ==
    [n \in 1..Len(t) |->
        IF /\ t[n] = " "
           /\ \/ n > 1 /\ t[n - 1] = " "
              \/ n < Len(t) /\ t[n + 1] = " "
        THEN "&nbsp;" ELSE t[n]]

\* the block around the numbered lines
NumberedBlock(ls) ==
    <<"<table:code>", "<tr>", "<td:code>", "<pre>">>
    \o Join([n \in 1..Len(ls) |-> <<"<span:lineno>", ToString(n), "</span>">> \o ls[n]],
            <<"<br>", "\n">>)
    \o <<"</pre>", "</td>", "</tr>", "</table>">>

\* the html of the only section of the document, and its code item
CodeHtml == html[1]

CodeItem == sections[1].items[1].code

CodeRendered == pc = "convert" /\ Len(html) = 1 /\ NonBlankLines(CodeItem) # {}

\* C19 as stated: the least indentation is removed from every line and every
\* run of two or more spaces becomes &nbsp;
C19_RunsOfSpaces ==
    CodeRendered =>
        CodeHtml = NumberedBlock(
            [n \in 1..Len(WithoutTrailingBlank(CodeItem)) |->
                SpaceRuns(_escape_html(
                    Drop(CodeItem[n], Min(LeastIndent(CodeItem), Len(CodeItem[n])))))])

\* C19: of a code block with a non-blank line the trailing blank lines are
\* removed; the least indentation of the non-blank lines is removed from
\* every line that is at least that long, a shorter line being kept as it
\* is; each line is escaped and then its spaces are replaced two by two,
\* from the left, by two &nbsp;, so that a run of odd length keeps one plain
\* space; output line i begins with the number i.  A code block without
\* non-blank line renders as the empty string.
C19_PairsOfSpaces ==
    /\ CodeRendered =>
           CodeHtml = NumberedBlock(
               [n \in 1..Len(WithoutTrailingBlank(CodeItem)) |->
                   SpacePairs(_escape_html(
                       IF Len(CodeItem[n]) >= LeastIndent(CodeItem)
                       THEN Drop(CodeItem[n], LeastIndent(CodeItem))
                       ELSE CodeItem[n]))])
    /\ pc = "convert" /\ Len(html) = 1 /\ NonBlankLines(CodeItem) = {} =>
           CodeHtml = <<>>

\* a rendered code block with an indented line, a run of three spaces and
\* a trailing blank line
C19_Witness ==
    /\ CodeRendered
    /\ LeastIndent(CodeItem) = 2
    /\ Len(WithoutTrailingBlank(CodeItem)) < Len(CodeItem)
    /\ \E n \in 1..(Len(CodeHtml) - 2) :
           SubSeq(CodeHtml, n, n + 2) = <<"&nbsp;", "&nbsp;", " ">>

-----------------------------------------------------------------------------
(* Document assembly                                                        *)

MaxAsmLines == 4

AsmPool ==
    { <<"-", "-", "-">>,
      <<"title", ":", " ", "T">>,
      <<"date", ":", " ", "D">>,
      <<"tags", ":">>,
      <<"tags", ":", " ", "a">>,
      <<"-", " ", "b">>,
      <<"x">> }

InitAssembly ==
    /\ md_content \in Docs(AsmPool, MaxAsmLines)
    /\ title \in {<<>>, <<"A">>}
    /\ source \in {<<>>, <<"S">>}
    /\ span = <<>>
    /\ pc = "start"
    /\ Fresh

SpecAssembly == InitAssembly /\ [][NextConvert]_vars

\* the title header table, when the resolved title is not empty
HeaderTable ==
    IF md_title.v # <<>>
    THEN <<"<table:header>", "<tr>", "<td:header>">> \o _escape_html(md_title.v)
         \o <<"</td>", "</tr>", "</table>">>
    ELSE <<>>

\* the tags of the document: the tags of the resolved list that are not empty
PresentTags == SelectSeq(md_tags.v, LAMBDA t : t # <<>>)

\* the date and the tags, joined by " | "
MetaLine ==
    Join((IF md_date.v # <<>> THEN <<_escape_html(md_date.v)>> ELSE <<>>)
         \o (IF md_tags.v # <<>>
             THEN <<Join([n \in 1..Len(md_tags.v) |->
                             <<"#">> \o _escape_html(md_tags.v[n])], <<" ">>)>>
             ELSE <<>>),
         <<" | ">>)

\* the meta table, when a date or at least one tag is present
MetaTable ==
    IF md_date.v # <<>> \/ PresentTags # <<>>
    THEN <<"<table:meta>", "<tr>", "<td:meta>">> \o MetaLine
         \o <<"</td>", "</tr>", "</table>">>
    ELSE <<>>

\* the source footer table, when the resolved source is not empty
FooterTable ==
    IF SourceOrPermalink.v # <<>>
    THEN <<"<table:source>", "<tr>", "<td:source>", "laiyuan: ", "<a href=\"">>
         \o _escape_html(SourceOrPermalink.v) \o <<"\">">>
         \o _escape_html(SourceOrPermalink.v)
         \o <<"</a>", "</td>", "</tr>", "</table>">>
    ELSE <<>>

\* C20: what convert() returns is, in this order and with nothing around
\* it, the title header iff the resolved title is not empty, the meta table
\* iff a date or at least one tag is present, the rendered body, and the
\* source footer iff the resolved source or permalink is not empty.
C20_DocumentAssembly ==
    pc = "done" =>
        result = HeaderTable \o MetaTable \o Flatten(html) \o FooterTable

-----------------------------------------------------------------------------
(* Claim C21: the literals of the style registry                           *)

\* the characters of every literal written in lines 23-218
LiteralChars ==
    {
      <<"#0066CC", <<"#", "0", "0", "6", "6", "C", "C">>>>,
      <<"#0277BD", <<"#", "0", "2", "7", "7", "B", "D">>>>,
      <<"#0D47A1", <<"#", "0", "D", "4", "7", "A", "1">>>>,
      <<"#1565C0", <<"#", "1", "5", "6", "5", "C", "0">>>>,
      <<"#212529", <<"#", "2", "1", "2", "5", "2", "9">>>>,
      <<"#2980B9", <<"#", "2", "9", "8", "0", "B", "9">>>>,
      <<"#2C3E50", <<"#", "2", "C", "3", "E", "5", "0">>>>,
      <<"#333333", <<"#", "3", "3", "3", "3", "3", "3">>>>,
      <<"#34495E", <<"#", "3", "4", "4", "9", "5", "E">>>>,
      <<"#3C3C3C", <<"#", "3", "C", "3", "C", "3", "C">>>>,
      <<"#42A5F5", <<"#", "4", "2", "A", "5", "F", "5">>>>,
      <<"#4E342E", <<"#", "4", "E", "3", "4", "2", "E">>>>,
      <<"#546E7A", <<"#", "5", "4", "6", "E", "7", "A">>>>,
      <<"#5D4037", <<"#", "5", "D", "4", "0", "3", "7">>>>,
      <<"#5D6D7E", <<"#", "5", "D", "6", "D", "7", "E">>>>,
      <<"#64B5F6", <<"#", "6", "4", "B", "5", "F", "6">>>>,
      <<"#6C757D", <<"#", "6", "C", "7", "5", "7", "D">>>>,
      <<"#6D4C41", <<"#", "6", "D", "4", "C", "4", "1">>>>,
      <<"#78909C", <<"#", "7", "8", "9", "0", "9", "C">>>>,
      <<"#7B241C", <<"#", "7", "B", "2", "4", "1", "C">>>>,
      <<"#7F8C8D", <<"#", "7", "F", "8", "C", "8", "D">>>>,
      <<"#888888", <<"#", "8", "8", "8", "8", "8", "8">>>>,
      <<"#8D6E63", <<"#", "8", "D", "6", "E", "6", "3">>>>,
      <<"#922B21", <<"#", "9", "2", "2", "B", "2", "1">>>>,
      <<"#95A5A6", <<"#", "9", "5", "A", "5", "A", "6">>>>,
      <<"#999999", <<"#", "9", "9", "9", "9", "9", "9">>>>,
      <<"#A04000", <<"#", "A", "0", "4", "0", "0", "0">>>>,
      <<"#A1887F", <<"#", "A", "1", "8", "8", "7", "F">>>>,
      <<"#BBDEFB", <<"#", "B", "B", "D", "E", "F", "B">>>>,
      <<"#BDC3C7", <<"#", "B", "D", "C", "3", "C", "7">>>>,
      <<"#C0392B", <<"#", "C", "0", "3", "9", "2", "B">>>>,
      <<"#D84315", <<"#", "D", "8", "4", "3", "1", "5">>>>,
      <<"#D9D9D9", <<"#", "D", "9", "D", "9", "D", "9">>>>,
      <<"#DEE2E6", <<"#", "D", "E", "E", "2", "E", "6">>>>,
      <<"#E0E0E0", <<"#", "E", "0", "E", "0", "E", "0">>>>,
      <<"#E3F2FD", <<"#", "E", "3", "F", "2", "F", "D">>>>,
      <<"#E65100", <<"#", "E", "6", "5", "1", "0", "0">>>>,
      <<"#E67E22", <<"#", "E", "6", "7", "E", "2", "2">>>>,
      <<"#E74C3C", <<"#", "E", "7", "4", "C", "3", "C">>>>,
      <<"#E83E8C", <<"#", "E", "8", "3", "E", "8", "C">>>>,
      <<"#E8E8E8", <<"#", "E", "8", "E", "8", "E", "8">>>>,
      <<"#E8F4FD", <<"#", "E", "8", "F", "4", "F", "D">>>>,
      <<"#E9ECEF", <<"#", "E", "9", "E", "C", "E", "F">>>>,
      <<"#ECF0F1", <<"#", "E", "C", "F", "0", "F", "1">>>>,
      <<"#F1F3F5", <<"#", "F", "1", "F", "3", "F", "5">>>>,
      <<"#F39C12", <<"#", "F", "3", "9", "C", "1", "2">>>>,
      <<"#F5F5F5", <<"#", "F", "5", "F", "5", "F", "5">>>>,
      <<"#F8F9FA", <<"#", "F", "8", "F", "9", "F", "A">>>>,
      <<"#FAD7A0", <<"#", "F", "A", "D", "7", "A", "0">>>>,
      <<"#FAFAFA", <<"#", "F", "A", "F", "A", "F", "A">>>>,
      <<"#FEF5E7", <<"#", "F", "E", "F", "5", "E", "7">>>>,
      <<"#FEF9E7", <<"#", "F", "E", "F", "9", "E", "7">>>>,
      <<"#FFB74D", <<"#", "F", "F", "B", "7", "4", "D">>>>,
      <<"#FFE082", <<"#", "F", "F", "E", "0", "8", "2">>>>,
      <<"#FFECB3", <<"#", "F", "F", "E", "C", "B", "3">>>>,
      <<"#FFF8E1", <<"#", "F", "F", "F", "8", "E", "1">>>>,
      <<"#FFFDE7", <<"#", "F", "F", "F", "D", "E", "7">>>>,
      <<"#FFFFFF", <<"#", "F", "F", "F", "F", "F", "F">>>>,
      <<"1.75", <<"1", ".", "7", "5">>>>,
      <<"1.8", <<"1", ".", "8">>>>,
      <<"12px", <<"1", "2", "p", "x">>>>,
      <<"13px", <<"1", "3", "p", "x">>>>,
      <<"16px", <<"1", "6", "p", "x">>>>,
      <<"17px", <<"1", "7", "p", "x">>>>,
      <<"18px", <<"1", "8", "p", "x">>>>,
      <<"20px", <<"2", "0", "p", "x">>>>,
      <<"22px", <<"2", "2", "p", "x">>>> }

\* the characters of a literal; a literal that lines 23-218 do not write is
\* kept whole
Spell(v) ==
    IF \E e \in LiteralChars : e[1] = v
    THEN (CHOOSE e \in LiteralChars : e[1] = v)[2]
    ELSE <<v>>

RECURSIVE Unspell(_)
Unspell(cs) == IF cs = <<>> THEN "" ELSE cs[1] \o Unspell(Tail(cs))

HexDigits ==
    { "0", "1", "2", "3", "4", "5", "6", "7", "8", "9",
      "A", "B", "C", "D", "E", "F", "a", "b", "c", "d", "e", "f" }

\* "#" and six hex digits
IsHexColor(cs) ==
    /\ Len(cs) = 7
    /\ cs[1] = "#"
    /\ \A n \in 2..7 : cs[n] \in HexDigits

\* one or more digits and "px"
IsPx(cs) ==
    /\ Len(cs) >= 3
    /\ cs[Len(cs) - 1] = "p"
    /\ cs[Len(cs)] = "x"
    /\ \A n \in 1..(Len(cs) - 2) : cs[n] \in Digits

\* a number without a unit: digits, at most one "." between digits
IsUnitless(cs) ==
    /\ Len(cs) >= 1
    /\ \A n \in 1..Len(cs) : cs[n] \in Digits \cup {"."}
    /\ Cardinality({n \in 1..Len(cs) : cs[n] = "."}) <= 1
    /\ cs[1] # "."
    /\ cs[Len(cs)] # "."

FontSizeFields == SizeFields \ {"paragraph_line_height"}

\* the registry is the one of lines 74-218, every preset has exactly the
\* color and size fields, and the preset a converter holds is the registry's
RegistryIntact ==
    /\ styles = STYLES
    /\ DOMAIN styles = {"academic_gray", "festival", "tech", "announcement"}
    /\ \A key \in DOMAIN styles :
           /\ DOMAIN styles[key] = ColorFields \cup SizeFields
           /\ \A f \in DOMAIN styles[key] : Unspell(Spell(styles[key][f])) = styles[key][f]
    /\ pc \notin {"new", "value_error"} => style_config = styles[style]

\* C21 as the specification states it: in every state, before, during and
\* after a conversion, every color field of every preset is "#" and six hex
\* digits and every size field, the line height included, is a px literal.
C21_AllSizesPx ==
    /\ RegistryIntact
    /\ \A key \in DOMAIN styles :
           /\ \A f \in ColorFields : IsHexColor(Spell(styles[key][f]))
           /\ \A f \in SizeFields : IsPx(Spell(styles[key][f]))

\* C21: in every state, before, during and after a conversion, the registry
\* is unchanged, every color field of every preset is "#" and six hex
\* digits (no alpha channel, no rgba()), every font size field is a px
\* literal, and paragraph_line_height is a number without a unit.
C21_LiteralsValid ==
    /\ RegistryIntact
    /\ \A key \in DOMAIN styles :
           /\ \A f \in ColorFields : IsHexColor(Spell(styles[key][f]))
           /\ \A f \in FontSizeFields : IsPx(Spell(styles[key][f]))
           /\ IsUnitless(Spell(styles[key].paragraph_line_height))

\* a converter made with the tech preset has returned a document with a
\* card and a paragraph, and the registry is still the one it was made from
C21_Witness ==
    /\ pc = "done"
    /\ style = "tech"
    /\ \E n \in 1..Len(result) : result[n] = "<table:card>"
    /\ \E n \in 1..Len(result) : result[n] = "<p>"
    /\ styles.tech = style_config
    /\ IsUnitless(Spell(styles.tech.paragraph_line_height))
    /\ ~IsPx(Spell(styles.tech.paragraph_line_height))

-----------------------------------------------------------------------------
(* scripts/parsers.py: ParserRegistry                                      *)
(* Claim C22: get_parser returns the earliest registered parser            *)

\* str.lower on the letters of a file extension
LowerChar(c) ==
    CASE c = "M" -> "m"
      [] c = "D" -> "d"
      [] c = "H" -> "h"
      [] c = "T" -> "t"
      [] c = "L" -> "l"
      [] OTHER -> c

LowerPath(t) == [n \in 1..Len(t) |-> LowerChar(t[n])]

\* the classes a registered parser can be an instance of: the two of
\* parsers.py and four ContentParser subclasses of a caller, which support
\* *.md, *.txt, every path and no path
ParserClasses ==
    {"MarkdownParser", "HTMLParser", "MdParser", "TxtParser", "AnyParser", "NoParser"}

\* parser.supports(filepath): lines 44-45 and 291-292 for the two built-in
\* classes
supports(p, path) ==
    CASE p.cls = "MarkdownParser" -> EndsWith(LowerPath(path), <<".", "m", "d">>)
      [] p.cls = "HTMLParser" -> EndsWith(LowerPath(path), <<".", "h", "t", "m", "l">>)
      [] p.cls = "MdParser" -> EndsWith(LowerPath(path), <<".", "m", "d">>)
      [] p.cls = "TxtParser" -> EndsWith(path, <<".", "t", "x", "t">>)
      [] p.cls = "AnyParser" -> TRUE
      [] OTHER -> FALSE

\* a parser object: its class and its identity (the n-th parser made)
Instance(cls, n) == [cls |-> cls, id |-> n]

\* lines 349-353: ParserRegistry.__init__
BuiltinParsers == <<Instance("MarkdownParser", 1), Instance("HTMLParser", 2)>>

\* a lookup that keeps the last supporting parser of the loop
LastSupporting(ps, path) ==
    LET sup == {n \in 1..Len(ps) : supports(ps[n], path)}
    IN  IF sup = {} THEN 0 ELSE CHOOSE n \in sup : \A k \in sup : k <= n

\* lines 357-359: the index of the parser the loop returns, or 0
FirstSupporting(ps, path) ==
    LET sup == {n \in 1..Len(ps) : supports(ps[n], path)}
    IN  IF sup = {} THEN 0 ELSE CHOOSE n \in sup : \A k \in sup : n <= k

MaxRegistered == 2

PathPool ==
    { <<"a", ".", "m", "d">>,
      <<"a", ".", "M", "D">>,
      <<"a", ".", "M", "d">>,
      <<".", "m", "d">>,
      <<"a", ".", "h", "t", "m", "l">>,
      <<"a", ".", "H", "T", "M", "L">>,
      <<"a", ".", "h", "t", "m">>,
      <<"a", ".", "m", "d", ".", "t", "x", "t">>,
      <<"a", ".", "h", "t", "m", "l", ".", "m", "d">>,
      <<"a", ".", "T", "X", "T">>,
      <<"a", "m", "d">>,
      <<"a", ".", "m", "d", "x">>,
      <<>> }

\* lines 362-364: register(parser), with a new parser object
register ==
    /\ Len(_parsers) >= 2
    /\ Len(_parsers) < 2 + MaxRegistered
    /\ \E cls \in ParserClasses :
           _parsers' = Append(_parsers, Instance(cls, Len(_parsers) + 1))
    /\ UNCHANGED <<filepath, parser_, pubVars>>
    /\ UNCHANGED <<convVars, span, formatted, ctorVars>>

\* lines 355-360: get_parser(filepath)
get_parser ==
    /\ Len(_parsers) >= 2
    /\ \E path \in PathPool :
           LET n == FirstSupporting(_parsers, path)
           IN  /\ filepath' = path
               /\ IF n # 0
                  THEN /\ parser_' = _parsers[n]
                       /\ error' = None
                  ELSE /\ parser_' = None
                       /\ error' = [type |-> "ValueError",
                                    message |-> <<"No parser available for file: ">>
                                                \o path]
    /\ UNCHANGED <<_parsers, style, style_config, styles, pubVars>>
    /\ UNCHANGED <<convVars, span, formatted>>

NextRegistry ==
    \/ register
    \/ get_parser

\* a new ParserRegistry, beside a converter that is not running
InitRegistry ==
    /\ md_content = << <<>> >>
    /\ title = <<>>
    /\ source = <<>>
    /\ span = <<>>
    /\ pc = "start"
    /\ front_matter = <<>>
    /\ body = << <<>> >>
    /\ image_counter = 0
    /\ lines = <<>>
    /\ i = 1
    /\ sections = <<>>
    /\ cur = None
    /\ in_code = FALSE
    /\ code_lang = <<>>
    /\ buf_code = <<>>
    /\ preface = <<>>
    /\ parabuf = <<>>
    /\ html = <<>>
    /\ result = <<>>
    /\ formatted = <<>>
    /\ style = "academic_gray"
    /\ styles = STYLES
    /\ style_config = styles[style]
    /\ error = None
    /\ _parsers = BuiltinParsers
    /\ filepath = <<>>
    /\ parser_ = None
    /\ namespace = ParsersNames
    /\ NotImported

SpecRegistry == InitRegistry /\ [][NextRegistry]_vars

\* the parsers of ps that accept the path, by a case-insensitive reading
\* of the extension for the built-in classes
Accepting(ps, path) == {n \in 1..Len(ps) : supports(ps[n], path)}

HasExtension(path, ext) ==
    /\ Len(path) >= Len(ext)
    /\ \A k \in 1..Len(ext) :
           LowerChar(path[Len(path) - Len(ext) + k]) = ext[k]

\* C22: a register() call appends its parser and changes nothing else of
\* the registry, so the two built-in parsers stay first; a get_parser call
\* returns the parser of least registration index among those whose
\* supports(filepath) is true, which is the built-in MarkdownParser for a
\* path ending in .md and the built-in HTMLParser for a path ending in
\* .html, in any letter case and whatever was registered later; when no
\* parser supports the path it raises ValueError and returns nothing.
C22_EarliestRegistered ==
    [][/\ _parsers' # _parsers =>
              /\ Len(_parsers') = Len(_parsers) + 1
              /\ SubSeq(_parsers', 1, Len(_parsers)) = _parsers
              /\ UNCHANGED <<filepath, parser_, error>>
       /\ SubSeq(_parsers', 1, 2) = BuiltinParsers
       /\ <<filepath, parser_, error>>' # <<filepath, parser_, error>> =>
              /\ _parsers' = _parsers
              /\ IF Accepting(_parsers, filepath') = {}
                 THEN /\ parser_' = None
                      /\ error' # None
                      /\ error'.type = "ValueError"
                 ELSE /\ error' = None
                      /\ \E n \in Accepting(_parsers, filepath') :
                             /\ parser_' = _parsers[n]
                             /\ \A k \in Accepting(_parsers, filepath') : n <= k
              /\ HasExtension(filepath', <<".", "m", "d">>) =>
                     parser_' = BuiltinParsers[1]
              /\ HasExtension(filepath', <<".", "h", "t", "m", "l">>) =>
                     parser_' = BuiltinParsers[2]
      ]_vars

\* after a caller registered its own parser for *.md and a parser for
\* every path, the lookup of a.MD has returned the built-in MarkdownParser
C22_Witness ==
    /\ Len(_parsers) = 4
    /\ _parsers[3].cls = "MdParser"
    /\ _parsers[4].cls = "AnyParser"
    /\ filepath = <<"a", ".", "M", "D">>
    /\ parser_ = Instance("MarkdownParser", 1)
    /\ error = None

-----------------------------------------------------------------------------
(* _convert_body: the lexer, line by line                                  *)
(* Claim C23: the code fence state machine                                 *)

MaxLexLines == 3

LexPool ==
    { <<Tick, Tick, Tick>>,
      <<Tick, Tick, Tick, "p", "y">>,
      <<" ", Tick, Tick, Tick>>,
      <<Tick, Tick, Tick, " ", "z">>,
      <<"#", "#", " ", "b">>,
      <<"-", " ", "a">>,
      <<"|", "a", "|">>,
      <<"!", "[", "a", "]", "(", "u", ")">>,
      <<">", " ", "q">>,
      <<"-", "-", "-">>,
      <<"x">>,
      <<"y">>,
      <<>> }

InitLexer ==
    /\ md_content \in Docs(LexPool, MaxLexLines)
    /\ title = <<>>
    /\ source = <<>>
    /\ span = <<>>
    /\ pc = "start"
    /\ Fresh

SpecLexer == InitLexer /\ [][NextConvert]_vars

\* the tokens emitted so far, in the order of their emission: the items of
\* the closed sections, then those of the open section or of the preface
Emitted ==
    Flatten([k \in 1..Len(sections) |-> sections[k].items])
    \o (IF cur # None THEN cur[1].items ELSE preface)

\* the sections opened by a heading so far
Opened == Len(SelectSeq(sections, IsHeaded)) + (IF cur # None THEN 1 ELSE 0)

\* spaces, then three backquotes, then anything
TicksAfterSpaces(line) ==
    \E k \in 0..Len(line) :
        /\ k + 3 <= Len(line)
        /\ \A n \in 1..k : line[n] = " "
        /\ \A n \in (k + 1)..(k + 3) : line[n] = Tick

\* what follows the three backquotes of a fence line, trimmed
LanguageTag(line) ==
    LET k == CHOOSE k \in 0..Len(line) :
                 /\ k + 3 <= Len(line)
                 /\ \A n \in 1..k : line[n] = " "
                 /\ \A n \in (k + 1)..(k + 3) : line[n] = Tick
    IN  Strip(SubSeq(line, k + 4, Len(line)))

\* the fence line that opened the code block which line n closes: the last
\* fence line before n
OpenOf(n) ==
    CHOOSE m \in 1..(n - 1) :
        /\ TicksAfterSpaces(lines[m])
        /\ \A k \in (m + 1)..(n - 1) : ~TicksAfterSpaces(lines[k])

\* the Code token for the lines strictly between two lines, in the lines
\* view of its text
CodeToken(open, close) ==
    [type |-> "code",
     code |-> IF close = open + 1 THEN << <<>> >>
              ELSE SubSeq(lines, open + 1, close - 1),
     lang |-> LanguageTag(lines[open])]

IsCode(item) == item.type = "code"

\* C23: the loop starts in state normal; a line that is three backquotes
\* after optional spaces toggles in_code: read in normal it records the
\* text after the backquotes as language, empties the code buffer and
\* emits nothing; read in in_code, whatever follows the backquotes, it
\* emits as the last token exactly one Code token with the lines read
\* since the matching open, in order, and the language of that open; any
\* other line read in in_code is appended to the code buffer as it is,
\* emits no token and opens no section.
C23_FenceStateMachine ==
    [][/\ pc = "parsed" /\ pc' = "lex" => ~in_code'
       /\ pc = "lex" /\ i' = i + 1 =>
              LET line == lines[i]
              IN  /\ TicksAfterSpaces(line) /\ ~in_code =>
                         /\ in_code'
                         /\ code_lang' = LanguageTag(line)
                         /\ buf_code' = <<>>
                         /\ Emitted' = Emitted
                         /\ Opened' = Opened
                  /\ TicksAfterSpaces(line) /\ in_code =>
                         /\ ~in_code'
                         /\ Opened' = Opened
                         /\ Len(SelectSeq(Emitted', IsCode))
                                = Len(SelectSeq(Emitted, IsCode)) + 1
                         /\ Emitted'[Len(Emitted')] = CodeToken(OpenOf(i), i)
                         /\ SubSeq(Emitted', 1, Len(Emitted)) = Emitted
                  /\ ~TicksAfterSpaces(line) /\ in_code =>
                         /\ in_code'
                         /\ buf_code' = Append(buf_code, line)
                         /\ code_lang' = code_lang
                         /\ Emitted' = Emitted
                         /\ Opened' = Opened
                         /\ parabuf' = parabuf
      ]_vars

\* a block opened with the language py and closed by a fence followed by
\* other text has been emitted as one Code token that holds a heading line
C23_Witness ==
    /\ pc = "lex"
    /\ i = 4
    /\ ~in_code
    /\ lines[1] = <<Tick, Tick, Tick, "p", "y">>
    /\ lines[3] = <<Tick, Tick, Tick, " ", "z">>
    /\ Emitted = << [type |-> "code", code |-> << <<"#", "#", " ", "b">> >>,
                     lang |-> <<"p", "y">>] >>
    /\ Opened = 0

-----------------------------------------------------------------------------
(* Claim C24: a fence that is never closed                                 *)

FenceLines == {n \in 1..Len(lines) : TicksAfterSpaces(lines[n])}

\* the fence line that is open at the end of input: the last one
LastFence == CHOOSE n \in FenceLines : \A m \in FenceLines : m <= n

\* the tokens of all the sections of secs, in order
TokensOf(secs) == Flatten([k \in 1..Len(secs) |-> secs[k].items])

\* the document cut before line n of the loop (the loop reads the last
\* Len(lines) lines of the document); a string has at least one line
CutBefore(n) ==
    LET keep == Len(md_content) - Len(lines) + n - 1
    IN  IF keep = 0 THEN << <<>> >> ELSE SubSeq(md_content, 1, keep)

\* C24: when the input ends inside a code block (an odd number of fence
\* lines was read) the sections are those of the lines before the open
\* fence, so no Code token stands for the open fence and no line after it
\* is a token, while every token of before, a paragraph still buffered at
\* the open fence included, is kept; the call returns what it returns on
\* the document cut before the open fence and never raises.  When every
\* fence was closed the loop ends in state normal.
C24_UnterminatedFence ==
    /\ pc \in {"group", "convert", "done", "raised"} =>
           (in_code <=> Cardinality(FenceLines) % 2 = 1)
    /\ pc = "group" /\ in_code =>
           /\ sections = CloseSections(LexAll(InitialLexState,
                                              SubSeq(lines, 1, LastFence - 1), 1))
           /\ 2 * Len(SelectSeq(TokensOf(sections), IsCode))
                  = Cardinality(FenceLines) - 1
    /\ pc # "raised"
    /\ pc = "done" /\ in_code =>
           result = ConvertFresh(CutBefore(LastFence), title, source)

\* the document x / fence / y has been converted: the paragraph x that was
\* buffered when the fence opened is in the html, the line y is not
C24_Witness ==
    /\ pc = "done"
    /\ in_code
    /\ md_content = << <<"x">>, <<Tick, Tick, Tick, "p", "y">>, <<"y">> >>
    /\ \E n \in 1..(Len(result) - 1) : result[n] = "<p>" /\ result[n + 1] = "x"
    /\ \A n \in 1..Len(result) : result[n] # "y"

-----------------------------------------------------------------------------
(* Claim C25: the order of the line rules                                  *)

MaxPrioLines == 2

PrioPool ==
    { <<"-", " ", "-", " ", "-">>,
      <<"*", " ", "*", " ", "*">>,
      <<"-", "-", "-">>,
      <<" ", "_", " ", "_", " ", "_">>,
      <<"-", "*", "_">>,
      <<"-", "-">>,
      <<"!", "[", "a", "]", "(", "u", ")">>,
      <<"#", " ", "!", "[", "a", "]", "(", "u", ")">>,
      <<"#", "#", " ", "-", "-", "-">>,
      <<"|", "-", "|">>,
      <<"|", " ", "-", " ", "a", " ", "|">>,
      <<">", " ", "-", "-", "-">>,
      <<"1", ".", " ", ">">>,
      <<Tick, Tick, Tick>>,
      <<"x">>,
      <<>> }

InitPriority ==
    /\ md_content \in Docs(PrioPool, MaxPrioLines)
    /\ title = <<>>
    /\ source = <<>>
    /\ span = <<>>
    /\ pc = "start"
    /\ Fresh

SpecPriority == InitPriority /\ [][NextConvert]_vars

\* three or more of "-", "*", "_", spaces allowed anywhere, nothing else
RuleLine(line) ==
    /\ \A n \in 1..Len(line) : line[n] \in {"-", "*", "_", " "}
    /\ \E a, b, c \in 1..Len(line) :
           a < b /\ b < c /\ line[a] # " " /\ line[b] # " " /\ line[c] # " "

\* the rules in the order of the loop
Rules ==
    <<"image", "heading", "list_item", "table", "blockquote", "horizontal_rule",
      "text">>

Matches(line, rule) ==
    CASE rule = "image" -> ImageMatch(line).ok
      [] rule = "heading" -> AtxMatch(line).ok
      [] rule = "list_item" -> ListMatch(line).ok
      [] rule = "table" -> IsTableLine(line)
      [] rule = "blockquote" -> IsBlockquote(line)
      [] rule = "horizontal_rule" -> RuleLine(line)
      [] rule = "text" -> Strip(line) # <<>>

\* the first rule the line matches, "" for a blank line
FirstRule(line) ==
    IF \E k \in 1..Len(Rules) : Matches(line, Rules[k])
    THEN Rules[CHOOSE k \in 1..Len(Rules) :
                   /\ Matches(line, Rules[k])
                   /\ \A j \in 1..(k - 1) : ~Matches(line, Rules[j])]
    ELSE ""

\* the kinds of token a rule emits
KindsOf(rule) ==
    CASE rule = "image" -> {"image"}
      [] rule = "heading" -> {"heading"}
      [] rule = "list_item" -> {"list_item"}
      [] rule = "table" -> {"table_row", "table_separator"}
      [] rule = "blockquote" -> {"blockquote"}
      [] rule = "horizontal_rule" -> {"horizontal_rule"}
      [] OTHER -> {}

NotParagraph(item) == item.type # "paragraph"

\* C25: a line read in state normal that is no fence keeps the tokens
\* emitted before, adds at most the paragraph buffered from earlier lines
\* and after it at most one token of its own, and what it adds is decided
\* by the first rule it matches in the order image, ATX heading, list item,
\* table row, blockquote, horizontal rule, text: a token of that rule's
\* kind (for a level 2 or 3 heading a new section instead), a line in the
\* paragraph buffer for text, nothing for a blank line.  So a line that is
\* a list item and a rule is a list item, and a horizontal_rule token is
\* emitted exactly for a line of three or more "-", "*", "_" and spaces
\* that matches no earlier rule.
C25_FirstRuleWins ==
    [][pc = "lex" /\ i' = i + 1 /\ ~in_code /\ ~TicksAfterSpaces(lines[i]) =>
           LET line == lines[i]
               rule == FirstRule(line)
               new == SubSeq(Emitted', Len(Emitted) + 1, Len(Emitted'))
               own == SelectSeq(new, NotParagraph)
               section == rule = "heading" /\ AtxMatch(line).level \in {2, 3}
           IN  /\ ~in_code'
               /\ Len(Emitted') >= Len(Emitted)
               /\ SubSeq(Emitted', 1, Len(Emitted)) = Emitted
               /\ Len(own) <= 1
               /\ Len(new) <= Len(own) + 1
               /\ own # <<>> => new[Len(new)] = own[1]
               /\ Opened' = Opened + (IF section THEN 1 ELSE 0)
               /\ section => own = <<>>
               /\ KindsOf(rule) # {} /\ ~section =>
                      Len(own) = 1 /\ own[1].type \in KindsOf(rule)
               /\ rule = "text" =>
                      new = <<>> /\ parabuf' = Append(parabuf, line)
               /\ rule = "" => new = <<>> /\ parabuf' = parabuf
               /\ (own # <<>> /\ own[1].type = "horizontal_rule") <=>
                      /\ RuleLine(line)
                      /\ \A k \in 1..5 : ~Matches(line, Rules[k])
      ]_vars

\* the line "- - -", which is a list item and a rule, has been read after a
\* text line and emitted as a ListItem after the paragraph
C25_Witness ==
    /\ pc = "lex"
    /\ i = 3
    /\ lines[2] = <<"-", " ", "-", " ", "-">>
    /\ RuleLine(lines[2])
    /\ ListMatch(lines[2]).ok
    /\ Len(Emitted) = 2
    /\ Emitted[1].type = "paragraph"
    /\ Emitted[2].type = "list_item"

-----------------------------------------------------------------------------
(* Claim C26: when the paragraph buffer is flushed                         *)

\* the items of the section that is current, or of the preface
Current == IF cur # None THEN cur[1].items ELSE preface

\* the Paragraph token of the buffered lines: one text, the lines in order
\* with a line break between them
Buffered ==
    [type |-> "paragraph",
     text |-> Flatten([n \in 1..Len(parabuf) |->
                          IF n = 1 THEN parabuf[n] ELSE <<"\n">> \o parabuf[n]])]

\* C26: a step of the loop leaves the buffer as it is, appends the line it
\* read, or empties it.  A step that emits a token of its own or opens a
\* section while lines are buffered first emits exactly one Paragraph
\* token with the buffered lines joined by line breaks, before its own
\* token and in the section that was current before the step (the section
\* a level 2 or 3 heading closes, or the preface), and leaves the buffer
\* empty; a step that emits no token and opens no section emits no
\* Paragraph.  The end of input emits the buffered lines the same way as
\* the last token of the last section.
C26_FlushBeforeNextToken ==
    [][/\ pc = "lex" /\ i' = i + 1 =>
              LET new == SubSeq(Emitted', Len(Emitted) + 1, Len(Emitted'))
                  own == SelectSeq(new, NotParagraph)
                  event == own # <<>> \/ Opened' > Opened
              IN  /\ SubSeq(Emitted', 1, Len(Emitted)) = Emitted
                  /\ parabuf' \in {parabuf, Append(parabuf, lines[i]), <<>>}
                  /\ event /\ parabuf # <<>> =>
                         /\ new = <<Buffered>> \o own
                         /\ parabuf' = <<>>
                         /\ IF Opened' > Opened
                            THEN sections'[Len(sections')].items
                                     = Append(Current, Buffered)
                            ELSE Current' = Current \o <<Buffered>> \o own
                  /\ event /\ parabuf = <<>> => new = own /\ parabuf' = <<>>
                  /\ ~event =>
                         /\ new = <<>>
                         /\ parabuf' \in {parabuf, Append(parabuf, lines[i])}
       /\ pc = "lex" /\ pc' = "group" =>
              /\ parabuf' = <<>>
              /\ IF parabuf # <<>>
                 THEN /\ TokensOf(sections') = Append(Emitted, Buffered)
                      /\ sections'[Len(sections')].items = Append(Current, Buffered)
                 ELSE TokensOf(sections') = Emitted
      ]_vars

\* the lines x and y were buffered and a level 2 heading was read: one
\* Paragraph "x / y" is the token of the preface section, the new section
\* is empty and so is the buffer
C26_Witness ==
    /\ pc = "lex"
    /\ i = 4
    /\ lines = << <<"x">>, <<"y">>, <<"#", "#", " ", "b">> >>
    /\ sections = << Section(0, <<>>, << [type |-> "paragraph",
                                          text |-> <<"x", "\n", "y">>] >>) >>
    /\ cur = << Section(2, <<"b">>, <<>>) >>
    /\ parabuf = <<>>

-----------------------------------------------------------------------------
(* Claim C27: the runs of list items                                       *)

MaxGroupLines == 3

GroupPool ==
    { <<"-", " ", "a">>,
      <<"1", ".", " ", "b">>,
      <<" ", " ", "-", " ", "c">>,
      <<" ", " ", "1", ".", " ", "d">>,
      <<" ", " ", " ", " ", "-", " ", "e">>,
      <<"|", "A", "|">>,
      <<">", " ", "q">>,
      <<"x">> }

InitGrouping ==
    /\ md_content \in Docs(GroupPool, MaxGroupLines)
    /\ title = <<>>
    /\ source = <<>>
    /\ span = <<>>
    /\ pc = "start"
    /\ Fresh

SpecGrouping == InitGrouping /\ [][NextConvert]_vars

\* the tokens after items[n] that end the run of the ListItem items[n]: not
\* a ListItem, a smaller indent, or the same indent and the other kind
StopsRun(items, n) ==
    {m \in (n + 1)..Len(items) :
        \/ items[m].type # "list_item"
        \/ items[m].indent < items[n].indent
        \/ /\ items[m].indent = items[n].indent
           /\ items[m].is_ordered # items[n].is_ordered}

\* the first token behind the run that starts at items[n]
RunStop(items, n) ==
    IF StopsRun(items, n) = {} THEN Len(items) + 1
    ELSE CHOOSE m \in StopsRun(items, n) : \A k \in StopsRun(items, n) : m <= k

\* the first token behind the table tokens that start at items[n]
TableStop(items, n) ==
    LET others == {m \in (n + 1)..Len(items) : ~IsTableToken(items[m])}
    IN  IF others = {} THEN Len(items) + 1
        ELSE CHOOSE m \in others : \A k \in others : m <= k

\* the List node of the run items[n..e-1]
ListOfRun(items, n, e) ==
    [type |-> "list",
     nested |-> _build_list_structure(
                    [k \in 1..(e - n) |-> [text |-> items[n + k - 1].text,
                                           indent |-> items[n + k - 1].indent]],
                    items[n].indent, items[n].is_ordered),
     ordered |-> items[n].is_ordered]

\* the nodes the rule calls for from items[n] on, the tables left out
RECURSIVE NodesByRule(_, _)
NodesByRule(items, n) ==
    IF n > Len(items) THEN <<>>
    ELSE IF items[n].type = "list_item"
    THEN <<ListOfRun(items, n, RunStop(items, n))>>
         \o NodesByRule(items, RunStop(items, n))
    ELSE IF IsTableToken(items[n]) THEN NodesByRule(items, TableStop(items, n))
    ELSE <<items[n]>> \o NodesByRule(items, n + 1)

NotTable(item) == item.type # "table"

\* C27: the grouping of the tokens of a section is, the tables apart: for
\* a ListItem with indent d and kind k, one List node of kind k made of the
\* longest run of following ListItems that have an indent above d, or the
\* indent d and the kind k; the first token that is no ListItem, or has an
\* indent below d, or has the indent d and the other kind, starts the next
\* group; every other token is passed on as it is, in order.  Every group
\* holds at least its first token, so the loop advances, and it ends with
\* no ListItem left ungrouped.
C27_ListRuns ==
    [][pc = "group" /\ pc' = "convert" =>
           /\ Len(sections') = Len(sections)
           /\ \A k \in 1..Len(sections) :
                  /\ SelectSeq(sections'[k].items, NotTable)
                         = NodesByRule(sections[k].items, 1)
                  /\ \A n \in 1..Len(sections[k].items) :
                         sections[k].items[n].type = "list_item" =>
                             ListRunEnd(sections[k].items, n,
                                        sections[k].items[n].indent,
                                        sections[k].items[n].is_ordered) > n
                  /\ \A n \in 1..Len(sections'[k].items) :
                         sections'[k].items[n].type # "list_item"
      ]_vars

\* "- a", "  1. d", "1. b" has been grouped into an unordered List node of
\* the first two items and an ordered List node of the third
C27_Witness ==
    /\ pc = "convert"
    /\ html = <<>>
    /\ lines = << <<"-", " ", "a">>, <<" ", " ", "1", ".", " ", "d">>,
                  <<"1", ".", " ", "b">> >>
    /\ Len(sections) = 1
    /\ Len(sections[1].items) = 2
    /\ sections[1].items[1].type = "list" /\ ~sections[1].items[1].ordered
    /\ sections[1].items[2].type = "list" /\ sections[1].items[2].ordered

-----------------------------------------------------------------------------
(* Claim C28: table rows, separators and alignments                        *)

MaxCellLines == 3

CellPool ==
    { <<"|", "a", "|", "b", "|">>,
      <<" ", "|", " ", "c", " ", "|", " ">>,
      <<"|", "-", ":", "|">>,
      <<"|", ":", "-", ":", "|", ":", "-", "|">>,
      <<"|", "-", " ", "-", "|", " ", "|">>,
      <<"|", ":", "|", "-", "|">>,
      <<"|", "-", "|", "a", "|">>,
      <<"|", " ", "|">>,
      <<"|">>,
      <<"x">> }

InitCells ==
    /\ md_content \in Docs(CellPool, MaxCellLines)
    /\ title = <<>>
    /\ source = <<>>
    /\ span = <<>>
    /\ pc = "start"
    /\ Fresh

SpecCells == InitCells /\ [][NextConvert]_vars

\* the trimmed line starts and ends with "|"
BarLine(line) ==
    LET t == Strip(line)
    IN  t # <<>> /\ t[1] = "|" /\ t[Len(t)] = "|"

\* what stands between the k-th and the next "|" of t
Field(t, k) ==
    LET bars == {n \in 1..Len(t) : t[n] = "|"}
        from == CHOOSE n \in bars : Cardinality({m \in bars : m < n}) = k - 1
        to == CHOOSE n \in bars : Cardinality({m \in bars : m < n}) = k
    IN  SubSeq(t, from + 1, to - 1)

\* the trimmed fields between the bars of the trimmed line: the fields
\* before the first and after the last bar are empty and dropped
CellsByRule(line) ==
    LET t == Strip(line)
        bars == {n \in 1..Len(t) : t[n] = "|"}
    IN  [k \in 1..(Cardinality(bars) - 1) |-> Strip(Field(t, k))]

SeparatorByRule(cells) ==
    \A n \in 1..Len(cells) :
        cells[n] # <<>> =>
            /\ \A m \in 1..Len(cells[n]) : cells[n][m] \in {" ", "-", ":"}
            /\ \E m \in 1..Len(cells[n]) : cells[n][m] = "-"

AlignmentByRule(cell) ==
    IF cell # <<>> /\ cell[1] = ":" /\ cell[Len(cell)] = ":" THEN "center"
    ELSE IF cell # <<>> /\ cell[Len(cell)] = ":" THEN "right"
    ELSE "left"

\* the alignment a cell tag of a data table is styled with, "" for any
\* other token
AlignOf(tok) ==
    CASE tok \in {"<th:center>", "<td:center:even>", "<td:center:odd>"} -> "center"
      [] tok \in {"<th:right>", "<td:right:even>", "<td:right:odd>"} -> "right"
      [] tok \in {"<th:left>", "<td:left:even>", "<td:left:odd>"} -> "left"
      [] OTHER -> ""

IsDataCell(tok) == AlignOf(tok) # ""

\* the alignments the cells of a table node are to be rendered with, row
\* by row
AlignmentsOf(node) ==
    Flatten([r \in 1..Len(node.rows) |->
                [c \in 1..Len(node.rows[r].cells) |->
                    IF c <= Len(node.alignments) THEN node.alignments[c]
                    ELSE "left"]])

\* C28: a line read in state normal whose trimmed form starts and ends
\* with "|" emits one token: with the trimmed fields between its bars as
\* cells, a TableSeparator if every non-blank cell is made of spaces, "-"
\* and ":" and holds a "-", and else a TableRow with those cells; the
\* separator carries one alignment per cell, center for a cell that starts
\* and ends with ":", right for one that only ends with ":", left
\* otherwise.  In the html returned, the cells of the tables are aligned,
\* in order, as the alignment list of their table says, and left in a
\* column beyond that list.
C28_TableRows ==
    [][/\ pc = "lex" /\ i' = i + 1 /\ ~in_code /\ BarLine(lines[i]) =>
              LET cells == CellsByRule(lines[i])
              IN  /\ Len(Emitted') > Len(Emitted)
                  /\ Emitted'[Len(Emitted')] =
                         IF SeparatorByRule(cells)
                         THEN [type |-> "table_separator",
                               alignments |->
                                   [n \in 1..Len(cells) |-> AlignmentByRule(cells[n])]]
                         ELSE [type |-> "table_row", cells |-> cells]
                  /\ Len(SelectSeq(SubSeq(Emitted', Len(Emitted) + 1, Len(Emitted')),
                                   NotParagraph)) = 1
       /\ pc' = "done" =>
              LET tags == SelectSeq(result', IsDataCell)
              IN  [n \in 1..Len(tags) |-> AlignOf(tags[n])]
                      = Flatten([n \in 1..Len(SelectSeq(TokensOf(sections'), IsTable)) |->
                                    AlignmentsOf(SelectSeq(TokensOf(sections'), IsTable)[n])])
      ]_vars

\* the separator "|-:|" was followed by the row "|a|b|": the table has one
\* alignment and two columns, its first cell is rendered right and its
\* second, beyond the list, left
C28_Witness ==
    /\ pc = "done"
    /\ lines = << <<"|", "-", ":", "|">>, <<"|", "a", "|", "b", "|">> >>
    /\ SelectSeq(TokensOf(sections), IsTable)[1].alignments = <<"right">>
    /\ SelectSeq(result, IsDataCell) = <<"<th:right>", "<th:left>">>

-----------------------------------------------------------------------------
(* Claim C29: blank lines do not end a paragraph                           *)

MaxBlankLines == 4

BlankPool ==
    { <<"x">>,
      <<"y">>,
      <<>>,
      <<" ">>,
      <<"-", " ", "a">>,
      <<Tick, Tick, Tick>> }

InitBlank ==
    /\ md_content \in Docs(BlankPool, MaxBlankLines)
    /\ title = <<>>
    /\ source = <<>>
    /\ span = <<>>
    /\ pc = "start"
    /\ Fresh

SpecBlank == InitBlank /\ [][NextConvert]_vars

IsBlankLine(line) == \A n \in 1..Len(line) : line[n] = " "

\* a line that is not blank, is no fence and matches none of the rules
\* before text
IsTextLine(line) ==
    ~IsBlankLine(line) /\ ~IsFenceLine(line) /\ FirstRule(line) = "text"

\* the n-th line is a text line and no text line before it is separated
\* from it by blank lines only
StartsParagraph(ls, n) ==
    /\ IsTextLine(ls[n])
    /\ ~\E m \in 1..(n - 1) :
           /\ IsTextLine(ls[m])
           /\ \A k \in (m + 1)..(n - 1) : IsBlankLine(ls[k]) \/ IsTextLine(ls[k])

\* the text lines from the n-th on that only blank and text lines separate
\* from it
ParagraphFrom(ls, n) ==
    LET IsMember(m) ==
            /\ m >= n
            /\ IsTextLine(ls[m])
            /\ \A k \in n..m : IsBlankLine(ls[k]) \/ IsTextLine(ls[k])
        members == {m \in 1..Len(ls) : IsMember(m)}
        Nth(j) == CHOOSE m \in members : Cardinality({q \in members : q < m}) = j - 1
    IN  [j \in 1..Cardinality(members) |-> ls[Nth(j)]]

\* the paragraphs of a document without fences: one for each text line
\* that starts one, in order
ParagraphsByRule(ls) ==
    LET starts == {n \in 1..Len(ls) : StartsParagraph(ls, n)}
        Nth(j) == CHOOSE n \in starts : Cardinality({q \in starts : q < n}) = j - 1
    IN  [j \in 1..Cardinality(starts) |-> ParagraphFrom(ls, Nth(j))]

\* the lines with tok between them
JoinedBy(ls, tok) ==
    Flatten([n \in 1..Len(ls) |-> IF n = 1 THEN ls[n] ELSE <<tok>> \o ls[n]])

IsParagraph(item) == item.type = "paragraph"

HasNoFence(ls) == \A n \in 1..Len(ls) : ~IsFenceLine(ls[n])

IsPTag(tok) == tok = "<p>"

\* C29: a blank line read in state normal emits no token, opens no section
\* and leaves the paragraph buffer as it is.  At the end of the input of a
\* document without fences, the Paragraph tokens are, in order, the runs
\* of text lines that only blank lines separate, each joined by line
\* breaks; and a document of text and blank lines only, with a text line,
\* is returned as one <p> with the text lines and a <br> between them.
C29_BlankKeepsParagraph ==
    [][/\ pc = "lex" /\ i' = i + 1 /\ ~in_code /\ IsBlankLine(lines[i]) =>
              /\ Emitted' = Emitted
              /\ Opened' = Opened
              /\ parabuf' = parabuf
       /\ pc = "lex" /\ pc' = "group" /\ HasNoFence(lines) =>
              LET paras == SelectSeq(TokensOf(sections'), IsParagraph)
                  runs == ParagraphsByRule(lines)
              IN  /\ Len(paras) = Len(runs)
                  /\ \A n \in 1..Len(runs) : paras[n].text = JoinedBy(runs[n], "\n")
       /\ /\ pc' = "done"
          /\ \A n \in 1..Len(lines) : IsBlankLine(lines[n]) \/ IsTextLine(lines[n])
          /\ \E n \in 1..Len(lines) : IsTextLine(lines[n])
          => /\ result' = <<"<p>">>
                          \o JoinedBy(SelectSeq(lines, IsTextLine), "<br>")
                          \o <<"</p>">>
             /\ Len(SelectSeq(result', IsPTag)) = 1
      ]_vars

\* "x", a blank line, a line of one space and "y" were returned as one <p>
C29_Witness ==
    /\ pc = "done"
    /\ lines = << <<"x">>, <<>>, <<" ">>, <<"y">> >>
    /\ result = <<"<p>", "x", "<br>", "y", "</p>">>

-----------------------------------------------------------------------------
(* scripts/publisher.py: ArticlePublisher.publish                          *)

MaxImages == 2

MaxPubParsers == 1

\* the styles the docstring of publish() names (line 45)
DocStyles == {"academic_gray", "festival", "tech", "announcement"}

PublishPaths == { <<"a", ".", "m", "d">>, <<"a", ".", "t", "x", "t">> }

PublishStyles == {"academic_gray", "neon"}

CoverPaths == {None, <<"c.png">>}

\* the src attributes of the <img> tags of a parsed content: a local file
\* and a data URI
ImgPool == { <<"a.png">>, <<"data:x">> }

\* what a parser that takes the style keyword returns: the cover image it
\* found and the images of its content, in order
ParseResults ==
    {[cover_image |-> c, content |-> imgs] :
        c \in {None, <<"r.png">>},
        imgs \in UNION {[1..k -> ImgPool] : k \in 0..MaxImages}}

\* what an upload through the client comes to
UploadOutcomes == {"media_id", "no_media_id", "raises", "not_found"}

\* parsers.py lines 47 and 294: the parse methods of the two built-in
\* classes take the file path only; of a caller's classes TxtParser and
\* AnyParser are written with a style keyword, MdParser and NoParser with
\* the signature of ContentParser.parse (line 13)
AcceptsStyle(p) == p.cls \in {"TxtParser", "AnyParser"}

\* image_processor.py lines 30-34: sources process_content leaves alone
Skipped(src) == src = <<"data:x">>

CoverId == [media_id |-> 0]

\* image_processor.py lines 36-55: the media ids of the images of content
\* whose upload returned one, in order
UploadedIds(content, out) ==
    LET Ok(n) == ~Skipped(content[n]) /\ out[n] = "media_id"
        oks == {n \in 1..Len(content) : Ok(n)}
        Nth(j) == CHOOSE n \in oks : Cardinality({q \in oks : q < n}) = j - 1
    IN  [j \in 1..Cardinality(oks) |-> [media_id |-> Nth(j)]]

pubFrame == <<convVars, span, formatted, style, style_config, styles, namespace>>

\* publisher.py lines 6-20: the import of the module; line 12 raises
\* ImportError when parsers holds no get_available_styles, line 20 binds
\* what it returns otherwise
ImportPublisher ==
    /\ publish_pc = "new"
    /\ IF "get_available_styles" \in namespace
       THEN /\ publish_pc' = "imported"
            /\ cls_STYLES' \in {DocStyles, {"academic_gray", "tech"}}
            /\ error' = None
       ELSE /\ publish_pc' = "import_error"
            /\ cls_STYLES' = None
            /\ error' = [type |-> "ImportError",
                         message |-> <<"cannot import name 'get_available_styles'">>]
    /\ UNCHANGED <<_parsers, filepath, parser_, call, parse_result,
                   thumb_media_id, uploaded_images, calls, returned>>
    /\ UNCHANGED pubFrame

\* lines 22-24: ArticlePublisher(client)
NewPublisher ==
    /\ publish_pc = "imported"
    /\ publish_pc' = "ready"
    /\ _parsers' = BuiltinParsers
    /\ UNCHANGED <<filepath, parser_, error, cls_STYLES, call, parse_result,
                   thumb_media_id, uploaded_images, calls, returned>>
    /\ UNCHANGED pubFrame

\* publisher.parser_registry.register(parser), before a call of publish()
RegisterParser ==
    /\ publish_pc = "ready"
    /\ Len(_parsers) < 2 + MaxPubParsers
    /\ register

\* lines 26-35: publish(filepath, cover_image=..., style=...) is called
publish ==
    /\ publish_pc \in {"ready", "returned", "raised"}
    /\ publish_pc' = "called"
    /\ filepath' \in PublishPaths
    /\ \E st \in PublishStyles, cover \in CoverPaths :
           call' = [style |-> st, cover_image |-> cover]
    /\ parser_' = None
    /\ error' = None
    /\ parse_result' = None
    /\ thumb_media_id' = None
    /\ uploaded_images' = <<>>
    /\ calls' = <<>>
    /\ returned' = None
    /\ UNCHANGED <<_parsers, cls_STYLES>>
    /\ UNCHANGED pubFrame

\* lines 47-54
ValidateStyle ==
    /\ publish_pc = "called"
    /\ IF call.style \notin cls_STYLES
       THEN /\ returned' = [success |-> FALSE, code |-> "INVALID_STYLE"]
            /\ publish_pc' = "returned"
       ELSE /\ returned' = None
            /\ publish_pc' = "validated"
    /\ UNCHANGED <<_parsers, filepath, parser_, error, cls_STYLES, call,
                   parse_result, thumb_media_id, uploaded_images, calls>>
    /\ UNCHANGED pubFrame

\* lines 57-58: get_parser raises ValueError when no parser supports the
\* path; parse(filepath, style=style) raises TypeError on a parser whose
\* parse takes no style
ParseContent ==
    /\ publish_pc = "validated"
    /\ LET n == FirstSupporting(_parsers, filepath)
       IN  IF n = 0
           THEN /\ parser_' = None
                /\ error' = [type |-> "ValueError",
                             message |-> <<"No parser available for file: ">>
                                         \o filepath]
                /\ calls' = calls \o <<"get_parser", "ValueError">>
                /\ parse_result' = None
                /\ publish_pc' = "raised"
           ELSE /\ parser_' = _parsers[n]
                /\ IF AcceptsStyle(_parsers[n])
                   THEN /\ parse_result' \in ParseResults
                        /\ error' = None
                        /\ calls' = calls \o <<"get_parser", "parse">>
                        /\ publish_pc' = "parsed"
                   ELSE /\ parse_result' = None
                        /\ error' = [type |-> "TypeError",
                                     message |-> <<"parse() got an unexpected keyword argument 'style'">>]
                        /\ calls' = calls \o <<"get_parser", "parse", "TypeError">>
                        /\ publish_pc' = "raised"
    /\ UNCHANGED <<_parsers, filepath, cls_STYLES, call, thumb_media_id,
                   uploaded_images, returned>>
    /\ UNCHANGED pubFrame

\* lines 65-68 and image_processor.py lines 78-99
UploadCover ==
    /\ publish_pc = "parsed"
    /\ LET cover_path == IF call.cover_image # None THEN call.cover_image
                         ELSE parse_result.cover_image
       IN  IF cover_path = None
           THEN thumb_media_id' = None
           ELSE \E outcome \in UploadOutcomes \ {"not_found"} :
                    thumb_media_id' = IF outcome = "media_id" THEN CoverId ELSE None
    /\ calls' = Append(calls, "upload_cover")
    /\ publish_pc' = "cover"
    /\ UNCHANGED <<_parsers, filepath, parser_, error, cls_STYLES, call,
                   parse_result, uploaded_images, returned>>
    /\ UNCHANGED pubFrame

\* lines 72-76 and image_processor.py lines 21-76
ProcessContent ==
    /\ publish_pc = "cover"
    /\ \E out \in [1..Len(parse_result.content) -> UploadOutcomes] :
           LET ids == UploadedIds(parse_result.content, out)
           IN  /\ uploaded_images' = ids
               /\ thumb_media_id' = IF thumb_media_id = None /\ ids # <<>>
                                    THEN ids[1]
                                    ELSE thumb_media_id
    /\ calls' = Append(calls, "process_content")
    /\ publish_pc' = "processed"
    /\ UNCHANGED <<_parsers, filepath, parser_, error, cls_STYLES, call,
                   parse_result, returned>>
    /\ UNCHANGED pubFrame

\* lines 80-104
ValidateCover ==
    /\ publish_pc = "processed"
    /\ IF thumb_media_id = None
       THEN /\ returned' = [success |-> FALSE, code |-> "MISSING_COVER_IMAGE"]
            /\ publish_pc' = "returned"
       ELSE /\ returned' = None
            /\ publish_pc' = "article"
    /\ UNCHANGED <<_parsers, filepath, parser_, error, cls_STYLES, call,
                   parse_result, thumb_media_id, uploaded_images, calls>>
    /\ UNCHANGED pubFrame

\* lines 109-124
CreateDraft ==
    /\ publish_pc = "article"
    /\ \E raises \in BOOLEAN :
           IF raises
           THEN /\ calls' = calls \o <<"create_draft", "WeChatClientException">>
                /\ returned' = [success |-> FALSE, code |-> "API_ERROR"]
           ELSE /\ calls' = Append(calls, "create_draft")
                /\ returned' = [success |-> TRUE, status |-> "published"]
    /\ publish_pc' = "returned"
    /\ UNCHANGED <<_parsers, filepath, parser_, error, cls_STYLES, call,
                   parse_result, thumb_media_id, uploaded_images>>
    /\ UNCHANGED pubFrame

NextPublish ==
    \/ ImportPublisher
    \/ NewPublisher
    \/ RegisterParser
    \/ publish
    \/ ValidateStyle
    \/ ParseContent
    \/ UploadCover
    \/ ProcessContent
    \/ ValidateCover
    \/ CreateDraft

\* publisher.py is about to be imported, beside a converter that is not
\* running; the module parsers found on the path is the one of
\* scripts/parsers.py or one that also defines get_available_styles
InitPublish ==
    /\ md_content = << <<>> >>
    /\ title = <<>>
    /\ source = <<>>
    /\ span = <<>>
    /\ pc = "start"
    /\ front_matter = <<>>
    /\ body = << <<>> >>
    /\ image_counter = 0
    /\ lines = <<>>
    /\ i = 1
    /\ sections = <<>>
    /\ cur = None
    /\ in_code = FALSE
    /\ code_lang = <<>>
    /\ buf_code = <<>>
    /\ preface = <<>>
    /\ parabuf = <<>>
    /\ html = <<>>
    /\ result = <<>>
    /\ formatted = <<>>
    /\ style = "academic_gray"
    /\ styles = STYLES
    /\ style_config = styles[style]
    /\ error = None
    /\ _parsers = <<>>
    /\ filepath = <<>>
    /\ parser_ = None
    /\ namespace \in {ParsersNames, ParsersNames \cup {"get_available_styles"}}
    /\ NotImported

SpecPublish == InitPublish /\ [][NextPublish]_vars

-----------------------------------------------------------------------------
(* Claim C30: the order of the calls of publish()                          *)

Ended == {"returned", "raised"}

IsCreateDraft(c) == c = "create_draft"

\* the place of the first call named c in cs, or 0
PlaceOf(cs, c) ==
    IF \E n \in 1..Len(cs) : cs[n] = c
    THEN CHOOSE n \in 1..Len(cs) : cs[n] = c /\ \A k \in 1..(n - 1) : cs[k] # c
    ELSE 0

====
